---- MODULE Spec2Model ----
(***************************************************************************)
(* Model of the streaming transfer core of notion-uploader.                *)
(*                                                                         *)
(* src/lib/stream-rechunker.ts: streamToNotion, prefetchBlobs,             *)
(* streamSinglePart, streamMultiPart.                                      *)
(*                                                                         *)
(* Sizes are counted in model units: NOTION_CHUNK_SIZE (10 MiB in the      *)
(* source) is scaled down, block sizes range over 0..MaxBlockSize units.   *)
(* A byte is the pair <<i, k>>: byte k of the body that answered the fetch *)
(* of blob i; a byte of the body of an error response is <<0 - i, k>>.     *)
(*                                                                         *)
(* One JavaScript event loop: the synchronous code between two awaits runs *)
(* without interleaving; promises (fetches, sends, finalize) settle only   *)
(* while the control flow is suspended at an await or has ended.           *)
(***************************************************************************)
EXTENDS Integers, Sequences, FiniteSets, TLC

\* ---- bounds of the model
MaxBlocks == 4
MaxBlockSize == 3

\* ---- program constants
NOTION_CHUNK_SIZE == 2
PREFETCH_CONCURRENCY == 3
SEND_CONCURRENCY == 2

VARIABLES
  useMultiPart,   \* streamToNotion's mode flag
  sortedBlobs,    \* the input block locators, in list order
  pc,             \* position of the transfer's control flow
  fetches,        \* per blob: the promise returned by fetchOne
  pending,        \* prefetchBlobs: FIFO of fetch promises (blob ids)
  nextIdx,        \* prefetchBlobs: next blob to fetch (0-based)
  awaited,        \* the promise the control flow is suspended on
  yielded,        \* blobs yielded by prefetchBlobs so far, in yield order
  chunks,         \* streamSinglePart: collected buffers
  bufferChunks,   \* streamMultiPart: rolling buffer (list of buffers)
  bufferedSize,   \* streamMultiPart: running byte count
  partNumber,     \* streamMultiPart: next frame number
  part,           \* streamMultiPart: frame cut and not yet handed to a send
  sendQueue,      \* streamMultiPart: FIFO of send promises (call indices)
  sendCalls,      \* calls of sendFileData, in call order
  allErr,         \* rejection latched by Promise.all(sendQueue)
  completeCalls,  \* number of calls of completeMultiPartUpload
  error,          \* the error streamToNotion rejected with
  firstFailure,   \* the error of the operation that failed first in time
  onPartSent,     \* whether the caller passed the onPartSent callback
  totalFileSize,  \* the byte-count hint, Undefined when omitted
  partSent,       \* calls of onPartSent, in call order
  \* -- fetchWithRetry (one call)
  opts,           \* the merged options
  attempt,        \* loop counter
  lastError,      \* last transport error caught
  rpc,            \* position of the call's control flow
  outcomes,       \* kind of outcome of each fetch call made, in call order
  response,       \* the response or exception of the current attempt
  sleeps,         \* delays passed to sleep, in call order
  result,         \* what fetchWithRetry returned or threw
  \* -- uploadChunksParallel (one call)
  total,          \* chunks.length
  concurrency,    \* options.concurrency
  completed,      \* completions counted
  nextIndex,      \* next item to start (0-based)
  abortError,     \* the latched failure
  activeCount,    \* slots in use
  ppc,            \* position of the pool's control flow
  workers,        \* per item: state of the promise returned by uploadFn
  jobs,           \* queue of pending promise reactions
  progress,       \* calls of onProgress, in call order
  settled,        \* items in the order their uploadFn promises settled
  promise,        \* the promise returned by uploadChunksParallel
  \* -- one request to an upload API route, through the client's retry layer
  route,          \* the route handler: init, chunk, complete or cleanup
  request,        \* what the request is like
  hpc,            \* position of the client and of the handler
  cause,          \* why the handler answered with an error
  httpStatus,     \* status of the handler's response, 0 before it is set
  events,         \* SSE events the complete handler has enqueued
  cleanups,       \* calls of cleanupBlobChunks during the request
  connected,      \* the client still reads the response stream
  clientAttempt,  \* clientFetchWithRetry's loop counter
  responses       \* statuses the client received, in order

streamVars ==
  <<useMultiPart, sortedBlobs, pc, fetches, pending, nextIdx, awaited,
    yielded, chunks, bufferChunks, bufferedSize, partNumber, part,
    sendQueue, sendCalls, allErr, completeCalls, error, firstFailure,
    onPartSent, totalFileSize, partSent>>

retryVars ==
  <<opts, attempt, lastError, rpc, outcomes, response, sleeps, result>>

poolVars ==
  <<total, concurrency, completed, nextIndex, abortError, activeCount, ppc,
    workers, jobs, progress, settled, promise>>

routeVars ==
  <<route, request, hpc, cause, httpStatus, events, cleanups, connected,
    clientAttempt, responses>>

vars == <<streamVars, retryVars, poolVars, routeVars>>

\* ---- values
NoError == [op |-> "none", id |-> 0]
FetchError(i) == [op |-> "fetch", id |-> i]
SendError(k) == [op |-> "send", id |-> k]
CompleteError == [op |-> "complete", id |-> 0]

Undefined == 0   \* sendFileData's partNumber when omitted

Min(a, b) == IF a < b THEN a ELSE b

RECURSIVE Concat(_)
\* Buffer.concat(list)
Concat(list) ==
  IF list = <<>> THEN <<>> ELSE Head(list) \o Concat(Tail(list))

\* what fetchWithRetry hands back: an ok response, a response with a
\* non-retryable status (returned, not thrown), or a thrown error
FetchOutcomes == {"ok", "nonretryable", "throw"}

\* the body of the response to the fetch of blob i
ResponseBody(i, outcome, size) ==
  IF outcome = "ok"
  THEN [k \in 1..size |-> <<i, k>>]
  ELSE [k \in 1..1 |-> <<0 - i, k>>]

\* fetchOne: fetchWithRetry(...).then(r => r.arrayBuffer()).then(Buffer.from)
FetchOne(i, outcome, size) ==
  IF outcome = "throw"
  THEN [st |-> "rejected", buf |-> <<>>]
  ELSE [st |-> "resolved", buf |-> ResponseBody(i, outcome, size)]

\* ---- values of fetchWithRetry

\* a bound of the model: opts.maxRetries ranges over 0..MaxRetries
MaxRetries == 3

\* DEFAULT_OPTIONS.retryableStatuses
RetryableStatuses == {429, 500, 502, 503, 504}

\* statuses the server answers with
Statuses == {200, 400, 404, 429, 500, 503}

\* Date.now() when a Retry-After header is parsed
Now == 100000

NoHeader == [kind |-> "absent", v |-> 0]

\* Retry-After headers: absent, a number of seconds, an HTTP date (as the
\* time it denotes, in ms), or text that is neither
RetryAfterHeaders ==
  {NoHeader,
   [kind |-> "seconds", v |-> 2],
   [kind |-> "seconds", v |-> 60],
   [kind |-> "seconds", v |-> 0 - 5],
   [kind |-> "date", v |-> Now - 5000],
   [kind |-> "date", v |-> Now + 2500],
   [kind |-> "garbage", v |-> 0]}

\* what response.text() does on the last attempt: rejects, or yields the body
BodyReads == {"throws", "", "payload"}

\* what a call of fetch ended in: a response (`read` is what response.text()
\* did, once it was called) or an exception
NoResponse ==
  [kind |-> "none", status |-> 0, header |-> NoHeader, type |-> "none",
   read |-> "unread"]
Resp(status, header) ==
  [kind |-> "response", status |-> status, header |-> header, type |-> "none",
   read |-> "unread"]
Exc(type) ==
  [kind |-> "exception", status |-> 0, header |-> NoHeader, type |-> type,
   read |-> "unread"]

\* error values: an exception thrown by the fetch call of attempt `id`, or
\* the Error built by fetchWithRetry
NoRetryError ==
  [type |-> "none", id |-> 0, retries |-> 0, status |-> 0, body |-> ""]
FetchException(type, id) ==
  [type |-> type, id |-> id, retries |-> 0, status |-> 0, body |-> ""]

NoResult == [kind |-> "none", status |-> 0, err |-> NoRetryError]
Returned(status) == [kind |-> "returned", status |-> status, err |-> NoRetryError]
Thrown(err) == [kind |-> "thrown", status |-> 0, err |-> err]

\* no call of fetchWithRetry is modelled
RetryIdle ==
  /\ opts = [maxRetries |-> 0, baseDelayMs |-> 0, maxDelayMs |-> 0]
  /\ attempt = 0
  /\ lastError = NoRetryError
  /\ rpc = "idle"
  /\ outcomes = <<>>
  /\ response = NoResponse
  /\ sleeps = <<>>
  /\ result = NoResult

\* no call of uploadChunksParallel is modelled
PoolIdle ==
  /\ total = 0
  /\ concurrency = 0
  /\ completed = 0
  /\ nextIndex = 0
  /\ abortError = NoError
  /\ activeCount = 0
  /\ ppc = "off"
  /\ workers = <<>>
  /\ jobs = <<>>
  /\ progress = <<>>
  /\ settled = <<>>
  /\ promise = [state |-> "none", err |-> NoError]

\* no request to an upload API route is modelled
RouteIdle ==
  /\ route = "none"
  /\ request = "none"
  /\ hpc = "off"
  /\ cause = "none"
  /\ httpStatus = 0
  /\ events = <<>>
  /\ cleanups = 0
  /\ connected = TRUE
  /\ clientAttempt = 0
  /\ responses = <<>>

\* no call of streamToNotion is modelled
StreamIdle ==
  /\ useMultiPart = FALSE
  /\ sortedBlobs = <<>>
  /\ pc = "off"
  /\ fetches = <<>>
  /\ pending = <<>>
  /\ nextIdx = 0
  /\ awaited = 0
  /\ yielded = <<>>
  /\ chunks = <<>>
  /\ bufferChunks = <<>>
  /\ bufferedSize = 0
  /\ partNumber = 1
  /\ part = <<>>
  /\ sendQueue = <<>>
  /\ sendCalls = <<>>
  /\ allErr = NoError
  /\ completeCalls = 0
  /\ error = NoError
  /\ firstFailure = NoError
  /\ onPartSent = FALSE
  /\ totalFileSize = Undefined
  /\ partSent = <<>>

Init ==
  /\ RetryIdle
  /\ PoolIdle
  /\ RouteIdle
  /\ useMultiPart \in BOOLEAN
  /\ sortedBlobs \in {[i \in 1..n |-> i] : n \in 0..MaxBlocks}
  /\ pc = "init"
  /\ fetches = [i \in 1..Len(sortedBlobs) |-> [st |-> "idle", buf |-> <<>>]]
  /\ pending = <<>>
  /\ nextIdx = 0
  /\ awaited = 0
  /\ yielded = <<>>
  /\ chunks = <<>>
  /\ bufferChunks = <<>>
  /\ bufferedSize = 0
  /\ partNumber = 1
  /\ part = <<>>
  /\ sendQueue = <<>>
  /\ sendCalls = <<>>
  /\ allErr = NoError
  /\ completeCalls = 0
  /\ error = NoError
  /\ firstFailure = NoError
  /\ onPartSent = FALSE
  /\ totalFileSize = Undefined
  /\ partSent = <<>>

\* ---- helpers of the control flow

\* the control flow is suspended at an await, or has ended
Suspended ==
  pc \in {"await_fetch", "await_slot", "await_final_slot", "await_all",
          "await_send", "await_complete", "done", "failed"}

\* mutant of SeedCount: one fetch more than the window
SeedCountOneMore(n) == Min(PREFETCH_CONCURRENCY + 1, n)

\* prefetchBlobs: size of the seeded window
SeedCount(n) == Min(PREFETCH_CONCURRENCY, n)

\* mutant of Shift: pop() instead of shift()
ShiftFromBack(q) == [head |-> q[Len(q)], rest |-> SubSeq(q, 1, Len(q) - 1)]

\* Array.prototype.shift: the front element and the rest
Shift(q) == [head |-> Head(q), rest |-> Tail(q)]

\* mutant of NeedFlush: a buffer of exactly one frame is not flushed
NeedFlushLate(size) == size > NOTION_CHUNK_SIZE

\* streamMultiPart: while (bufferedSize >= NOTION_CHUNK_SIZE)
NeedFlush(size) == size >= NOTION_CHUNK_SIZE

\* combined.subarray(0, NOTION_CHUNK_SIZE)
PartOf(combined) == SubSeq(combined, 1, NOTION_CHUNK_SIZE)

\* mutant of RemainderOf: the remainder starts one byte late
RemainderOfOffByOne(combined) ==
  SubSeq(combined, NOTION_CHUNK_SIZE + 2, Len(combined))

\* combined.subarray(NOTION_CHUNK_SIZE)
RemainderOf(combined) == SubSeq(combined, NOTION_CHUNK_SIZE + 1, Len(combined))

\* mutant of PushChunk: unshift() instead of push()
PushChunkFront(list, chunk) == <<chunk>> \o list

\* bufferChunks.push(chunk)
PushChunk(list, chunk) == Append(list, chunk)

\* mutant of QueueFull: the window is taken as full one send later
QueueFullLate(q) == Len(q) > SEND_CONCURRENCY

\* if (sendQueue.length >= SEND_CONCURRENCY)
QueueFull(q) == Len(q) >= SEND_CONCURRENCY

\* mutant of HasRemaining: >= instead of >
HasRemainingOrEmpty(size) == size >= 0

\* if (bufferedSize > 0)
HasRemaining(size) == size > 0

\* mutant of NextPartNumber: the increment is lost
NextPartNumberStuck(p) == p

\* partNumber++
NextPartNumber(p) == p + 1

\* mutant of CombinedBuffer: the first chunk is left out
CombinedBufferDropFirst(list) ==
  IF list = <<>> THEN <<>> ELSE Concat(Tail(list))

\* streamSinglePart: Buffer.concat(chunks)
CombinedBuffer(list) == Concat(list)

\* mutant of AllFulfilled: only the oldest send of the queue is awaited
AllFulfilledOldestOnly(q, calls) ==
  IF q = <<>> THEN TRUE ELSE calls[q[1]].st = "ok"

\* Promise.all(sendQueue) fulfils: every promise of the queue is fulfilled
AllFulfilled(q, calls) == \A j \in 1..Len(q) : calls[q[j]].st = "ok"

\* Promise.all(sendQueue) at the call: the reaction of the first promise of
\* the queue that is already rejected runs first
AlreadyRejected(q, calls) ==
  IF \E j \in 1..Len(q) : calls[q[j]].st = "rejected"
  THEN SendError(q[CHOOSE j \in 1..Len(q) :
                     /\ calls[q[j]].st = "rejected"
                     /\ \A h \in 1..(j - 1) : calls[q[h]].st /= "rejected"])
  ELSE NoError

\* sendFileData(uploadId, buffer, contentType, number) is called
SendFileData(calls, buffer, number) ==
  Append(calls, [partNumber |-> number, payload |-> buffer, st |-> "inflight",
                 total |-> Undefined])

\* totalParts: Math.ceil(totalFileSize / NOTION_CHUNK_SIZE) when
\* totalFileSize is truthy, else undefined
TotalParts(size) ==
  IF size = Undefined THEN Undefined
  ELSE IF size % NOTION_CHUNK_SIZE = 0
       THEN size \div NOTION_CHUNK_SIZE
       ELSE size \div NOTION_CHUNK_SIZE + 1

\* mutant of EstimatedTotal: the hint is not used
EstimatedTotalIgnoresHint(totalParts, currentPart) == currentPart

\* totalParts ?? currentPart
EstimatedTotal(totalParts, currentPart) ==
  IF totalParts /= Undefined THEN totalParts ELSE currentPart

\* mutant of ThenOnPartSent: the callback runs whatever the send ended in
ThenOnPartSentAlways(log, given, ok, call) ==
  IF given /\ call.partNumber /= Undefined
  THEN Append(log, [partNumber |-> call.partNumber, totalParts |-> call.total])
  ELSE log

\* .then(() => onPartSent?.(currentPart, estimatedTotal)) of a frame send:
\* runs when the send is fulfilled; streamSinglePart attaches no callback
ThenOnPartSent(log, given, ok, call) ==
  IF given /\ ok /\ call.partNumber /= Undefined
  THEN Append(log, [partNumber |-> call.partNumber, totalParts |-> call.total])
  ELSE log

Latch(first, err) == IF first = NoError THEN err ELSE first

\* ---- prefetchBlobs

\* mutant of StreamToNotion: the queue is seeded with fetches that are
\* never started
StreamToNotionLazySeed ==
  /\ pc = "init"
  /\ LET k == SeedCount(Len(sortedBlobs)) IN
       /\ pending' = [j \in 1..k |-> sortedBlobs[j]]
       /\ nextIdx' = k
  /\ pc' = "gen_loop"
  /\ UNCHANGED <<useMultiPart, sortedBlobs, fetches, awaited, yielded, chunks,
                 bufferChunks, bufferedSize, partNumber, part, sendQueue,
                 sendCalls, allErr, completeCalls, error, firstFailure>>
  /\ UNCHANGED <<onPartSent, totalFileSize, partSent>>
  /\ UNCHANGED <<retryVars, poolVars, routeVars>>

\* streamToNotion is called; the first next() of the generator seeds the
\* prefetch queue
StreamToNotion ==
  /\ pc = "init"
  /\ LET k == SeedCount(Len(sortedBlobs)) IN
       /\ pending' = [j \in 1..k |-> sortedBlobs[j]]
       /\ fetches' = [i \in DOMAIN fetches |->
                        IF i \in {sortedBlobs[j] : j \in 1..k}
                        THEN [fetches[i] EXCEPT !.st = "inflight"]
                        ELSE fetches[i]]
       /\ nextIdx' = k
  /\ pc' = "gen_loop"
  /\ UNCHANGED <<useMultiPart, sortedBlobs, awaited, yielded, chunks,
                 bufferChunks, bufferedSize, partNumber, part, sendQueue,
                 sendCalls, allErr, completeCalls, error, firstFailure>>
  /\ UNCHANGED <<onPartSent, totalFileSize, partSent>>
  /\ UNCHANGED <<retryVars, poolVars, routeVars>>

\* while (pending.length > 0) { yield await pending.shift() ...
GenLoop ==
  /\ pc = "gen_loop"
  /\ pending /= <<>>
  /\ awaited' = Shift(pending).head
  /\ pending' = Shift(pending).rest
  /\ pc' = "await_fetch"
  /\ UNCHANGED <<useMultiPart, sortedBlobs, fetches, nextIdx, yielded, chunks,
                 bufferChunks, bufferedSize, partNumber, part, sendQueue,
                 sendCalls, allErr, completeCalls, error, firstFailure>>
  /\ UNCHANGED <<onPartSent, totalFileSize, partSent>>
  /\ UNCHANGED <<retryVars, poolVars, routeVars>>

\* the queue is empty: the generator returns, the for-await loop ends
GenReturn ==
  /\ pc = "gen_loop"
  /\ pending = <<>>
  /\ awaited' = 0
  /\ pc' = "after_loop"
  /\ UNCHANGED <<useMultiPart, sortedBlobs, fetches, pending, nextIdx, yielded,
                 chunks, bufferChunks, bufferedSize, partNumber, part,
                 sendQueue, sendCalls, allErr, completeCalls, error,
                 firstFailure>>
  /\ UNCHANGED <<onPartSent, totalFileSize, partSent>>
  /\ UNCHANGED <<retryVars, poolVars, routeVars>>

\* the awaited fetch is fulfilled: the buffer is yielded and the loop body
\* of the consumer runs (chunks.push / bufferChunks.push, bufferedSize +=)
YieldBlock ==
  /\ pc = "await_fetch"
  /\ fetches[awaited].st = "resolved"
  /\ yielded' = Append(yielded, awaited)
  /\ IF useMultiPart
     THEN /\ bufferChunks' = PushChunk(bufferChunks, fetches[awaited].buf)
          /\ bufferedSize' = bufferedSize + Len(fetches[awaited].buf)
          /\ pc' = "flush"
          /\ UNCHANGED chunks
     ELSE /\ chunks' = Append(chunks, fetches[awaited].buf)
          /\ pc' = "gen_next"
          /\ UNCHANGED <<bufferChunks, bufferedSize>>
  /\ awaited' = 0
  /\ UNCHANGED <<useMultiPart, sortedBlobs, fetches, pending, nextIdx,
                 partNumber, part, sendQueue, sendCalls, allErr, completeCalls,
                 error, firstFailure>>
  /\ UNCHANGED <<onPartSent, totalFileSize, partSent>>
  /\ UNCHANGED <<retryVars, poolVars, routeVars>>

\* the awaited fetch is rejected: the generator throws, streamToNotion rejects
FetchRejected ==
  /\ pc = "await_fetch"
  /\ fetches[awaited].st = "rejected"
  /\ error' = FetchError(awaited)
  /\ pc' = "failed"
  /\ awaited' = 0
  /\ UNCHANGED <<useMultiPart, sortedBlobs, fetches, pending, nextIdx, yielded,
                 chunks, bufferChunks, bufferedSize, partNumber, part,
                 sendQueue, sendCalls, allErr, completeCalls, firstFailure>>
  /\ UNCHANGED <<onPartSent, totalFileSize, partSent>>
  /\ UNCHANGED <<retryVars, poolVars, routeVars>>

\* the consumer asks for the next block: replenish at the back
GenNext ==
  /\ pc = "gen_next"
  /\ IF nextIdx < Len(sortedBlobs)
     THEN /\ pending' = Append(pending, sortedBlobs[nextIdx + 1])
          /\ fetches' = [fetches EXCEPT ![sortedBlobs[nextIdx + 1]].st = "inflight"]
          /\ nextIdx' = nextIdx + 1
     ELSE UNCHANGED <<pending, fetches, nextIdx>>
  /\ pc' = "gen_loop"
  /\ UNCHANGED <<useMultiPart, sortedBlobs, awaited, yielded, chunks,
                 bufferChunks, bufferedSize, partNumber, part, sendQueue,
                 sendCalls, allErr, completeCalls, error, firstFailure>>
  /\ UNCHANGED <<onPartSent, totalFileSize, partSent>>
  /\ UNCHANGED <<retryVars, poolVars, routeVars>>

\* a fetch promise settles (network)
FetchSettle ==
  /\ Suspended
  /\ \E i \in DOMAIN fetches, outcome \in FetchOutcomes, size \in 0..MaxBlockSize :
       /\ fetches[i].st = "inflight"
       /\ fetches' = [fetches EXCEPT ![i] = FetchOne(i, outcome, size)]
       /\ firstFailure' = IF outcome = "throw"
                          THEN Latch(firstFailure, FetchError(i))
                          ELSE firstFailure
  /\ UNCHANGED <<useMultiPart, sortedBlobs, pc, pending, nextIdx, awaited,
                 yielded, chunks, bufferChunks, bufferedSize, partNumber, part,
                 sendQueue, sendCalls, allErr, completeCalls, error>>
  /\ UNCHANGED <<onPartSent, totalFileSize, partSent>>
  /\ UNCHANGED <<retryVars, poolVars, routeVars>>

\* ---- streamMultiPart

\* mutant of PushSend: the frame is numbered one too high
PushSendSkipsNumber(buffer) ==
  /\ sendCalls' =
       [SendFileData(sendCalls, buffer, partNumber + 1)
          EXCEPT ![Len(sendCalls) + 1].total =
                   EstimatedTotal(TotalParts(totalFileSize), partNumber)]
  /\ sendQueue' = Append(sendQueue, Len(sendCalls) + 1)

\* the frame `buffer` gets the next part number and is handed to a send
PushSend(buffer) ==
  /\ sendCalls' =
       [SendFileData(sendCalls, buffer, partNumber)
          EXCEPT ![Len(sendCalls) + 1].total =
                   EstimatedTotal(TotalParts(totalFileSize), partNumber)]
  /\ sendQueue' = Append(sendQueue, Len(sendCalls) + 1)

\* the flush loop cuts a frame and the send window has room
FlushSend ==
  /\ pc = "flush"
  /\ NeedFlush(bufferedSize)
  /\ LET combined == Concat(bufferChunks)
         remainder == RemainderOf(combined)
     IN  /\ bufferChunks' = IF Len(remainder) > 0 THEN <<remainder>> ELSE <<>>
         /\ bufferedSize' = Len(remainder)
         /\ ~QueueFull(sendQueue)
         /\ PushSend(PartOf(combined))
  /\ partNumber' = NextPartNumber(partNumber)
  /\ pc' = "flush"
  /\ UNCHANGED <<useMultiPart, sortedBlobs, fetches, pending, nextIdx, awaited,
                 yielded, chunks, part, allErr, completeCalls, error,
                 firstFailure>>
  /\ UNCHANGED <<onPartSent, totalFileSize, partSent>>
  /\ UNCHANGED <<retryVars, poolVars, routeVars>>

\* the flush loop cuts a frame and the send window is full: await the oldest
FlushWait ==
  /\ pc = "flush"
  /\ NeedFlush(bufferedSize)
  /\ LET combined == Concat(bufferChunks)
         remainder == RemainderOf(combined)
     IN  /\ bufferChunks' = IF Len(remainder) > 0 THEN <<remainder>> ELSE <<>>
         /\ bufferedSize' = Len(remainder)
         /\ QueueFull(sendQueue)
         /\ part' = PartOf(combined)
  /\ awaited' = Shift(sendQueue).head
  /\ sendQueue' = Shift(sendQueue).rest
  /\ pc' = "await_slot"
  /\ UNCHANGED <<useMultiPart, sortedBlobs, fetches, pending, nextIdx, yielded,
                 chunks, partNumber, sendCalls, allErr, completeCalls, error,
                 firstFailure>>
  /\ UNCHANGED <<onPartSent, totalFileSize, partSent>>
  /\ UNCHANGED <<retryVars, poolVars, routeVars>>

\* the awaited oldest send is fulfilled: the cut frame is handed to a send
SlotFreed ==
  /\ pc = "await_slot"
  /\ sendCalls[awaited].st = "ok"
  /\ PushSend(part)
  /\ partNumber' = NextPartNumber(partNumber)
  /\ part' = <<>>
  /\ awaited' = 0
  /\ pc' = "flush"
  /\ UNCHANGED <<useMultiPart, sortedBlobs, fetches, pending, nextIdx, yielded,
                 chunks, bufferChunks, bufferedSize, allErr, completeCalls,
                 error, firstFailure>>
  /\ UNCHANGED <<onPartSent, totalFileSize, partSent>>
  /\ UNCHANGED <<retryVars, poolVars, routeVars>>

\* mutant of SlotRejected: the rejection of the awaited send is swallowed
\* and the frame is handed over as if the slot had been freed
SlotRejectedSwallowed ==
  /\ pc \in {"await_slot", "await_final_slot"}
  /\ sendCalls[awaited].st = "rejected"
  /\ PushSend(part)
  /\ partNumber' = IF pc = "await_slot" THEN NextPartNumber(partNumber)
                   ELSE partNumber
  /\ part' = <<>>
  /\ awaited' = 0
  /\ pc' = IF pc = "await_slot" THEN "flush" ELSE "promise_all"
  /\ UNCHANGED <<useMultiPart, sortedBlobs, fetches, pending, nextIdx, yielded,
                 chunks, bufferChunks, bufferedSize, allErr, completeCalls,
                 error, firstFailure>>
  /\ UNCHANGED <<onPartSent, totalFileSize, partSent>>
  /\ UNCHANGED <<retryVars, poolVars, routeVars>>

\* the awaited oldest send is rejected: streamToNotion rejects with its error
SlotRejected ==
  /\ pc \in {"await_slot", "await_final_slot"}
  /\ sendCalls[awaited].st = "rejected"
  /\ error' = SendError(awaited)
  /\ pc' = "failed"
  /\ awaited' = 0
  /\ UNCHANGED <<useMultiPart, sortedBlobs, fetches, pending, nextIdx, yielded,
                 chunks, bufferChunks, bufferedSize, partNumber, part,
                 sendQueue, sendCalls, allErr, completeCalls, firstFailure>>
  /\ UNCHANGED <<onPartSent, totalFileSize, partSent>>
  /\ UNCHANGED <<retryVars, poolVars, routeVars>>

\* less than a frame is buffered: the loop body ends, next block
FlushDone ==
  /\ pc = "flush"
  /\ ~NeedFlush(bufferedSize)
  /\ pc' = "gen_next"
  /\ UNCHANGED <<useMultiPart, sortedBlobs, fetches, pending, nextIdx, awaited,
                 yielded, chunks, bufferChunks, bufferedSize, partNumber, part,
                 sendQueue, sendCalls, allErr, completeCalls, error,
                 firstFailure>>
  /\ UNCHANGED <<onPartSent, totalFileSize, partSent>>
  /\ UNCHANGED <<retryVars, poolVars, routeVars>>

\* after the loop: flush the remaining data, the send window has room
FinalFlushSend ==
  /\ pc = "after_loop"
  /\ useMultiPart
  /\ HasRemaining(bufferedSize)
  /\ ~QueueFull(sendQueue)
  /\ PushSend(Concat(bufferChunks))
  /\ pc' = "promise_all"
  /\ UNCHANGED <<useMultiPart, sortedBlobs, fetches, pending, nextIdx, awaited,
                 yielded, chunks, bufferChunks, bufferedSize, partNumber, part,
                 allErr, completeCalls, error, firstFailure>>
  /\ UNCHANGED <<onPartSent, totalFileSize, partSent>>
  /\ UNCHANGED <<retryVars, poolVars, routeVars>>

\* after the loop: remaining data, the send window is full: await the oldest
FinalFlushWait ==
  /\ pc = "after_loop"
  /\ useMultiPart
  /\ HasRemaining(bufferedSize)
  /\ QueueFull(sendQueue)
  /\ part' = Concat(bufferChunks)
  /\ awaited' = Shift(sendQueue).head
  /\ sendQueue' = Shift(sendQueue).rest
  /\ pc' = "await_final_slot"
  /\ UNCHANGED <<useMultiPart, sortedBlobs, fetches, pending, nextIdx, yielded,
                 chunks, bufferChunks, bufferedSize, partNumber, sendCalls,
                 allErr, completeCalls, error, firstFailure>>
  /\ UNCHANGED <<onPartSent, totalFileSize, partSent>>
  /\ UNCHANGED <<retryVars, poolVars, routeVars>>

\* the awaited oldest send is fulfilled: the final frame is handed to a send
FinalSlotFreed ==
  /\ pc = "await_final_slot"
  /\ sendCalls[awaited].st = "ok"
  /\ PushSend(part)
  /\ part' = <<>>
  /\ awaited' = 0
  /\ pc' = "promise_all"
  /\ UNCHANGED <<useMultiPart, sortedBlobs, fetches, pending, nextIdx, yielded,
                 chunks, bufferChunks, bufferedSize, partNumber, allErr,
                 completeCalls, error, firstFailure>>
  /\ UNCHANGED <<onPartSent, totalFileSize, partSent>>
  /\ UNCHANGED <<retryVars, poolVars, routeVars>>

\* after the loop: nothing remains buffered
NoFinalFlush ==
  /\ pc = "after_loop"
  /\ useMultiPart
  /\ ~HasRemaining(bufferedSize)
  /\ pc' = "promise_all"
  /\ UNCHANGED <<useMultiPart, sortedBlobs, fetches, pending, nextIdx, awaited,
                 yielded, chunks, bufferChunks, bufferedSize, partNumber, part,
                 sendQueue, sendCalls, allErr, completeCalls, error,
                 firstFailure>>
  /\ UNCHANGED <<onPartSent, totalFileSize, partSent>>
  /\ UNCHANGED <<retryVars, poolVars, routeVars>>

\* await Promise.all(sendQueue): the call
PromiseAll ==
  /\ pc = "promise_all"
  /\ allErr' = AlreadyRejected(sendQueue, sendCalls)
  /\ pc' = "await_all"
  /\ UNCHANGED <<useMultiPart, sortedBlobs, fetches, pending, nextIdx, awaited,
                 yielded, chunks, bufferChunks, bufferedSize, partNumber, part,
                 sendQueue, sendCalls, completeCalls, error, firstFailure>>
  /\ UNCHANGED <<onPartSent, totalFileSize, partSent>>
  /\ UNCHANGED <<retryVars, poolVars, routeVars>>

\* Promise.all rejected: streamToNotion rejects with the latched error
AllRejected ==
  /\ pc = "await_all"
  /\ allErr /= NoError
  /\ error' = allErr
  /\ pc' = "failed"
  /\ UNCHANGED <<useMultiPart, sortedBlobs, fetches, pending, nextIdx, awaited,
                 yielded, chunks, bufferChunks, bufferedSize, partNumber, part,
                 sendQueue, sendCalls, allErr, completeCalls, firstFailure>>
  /\ UNCHANGED <<onPartSent, totalFileSize, partSent>>
  /\ UNCHANGED <<retryVars, poolVars, routeVars>>

\* Promise.all fulfilled: completeMultiPartUpload is called
CompleteMultiPartUpload ==
  /\ pc = "await_all"
  /\ allErr = NoError
  /\ AllFulfilled(sendQueue, sendCalls)
  /\ completeCalls' = completeCalls + 1
  /\ pc' = "await_complete"
  /\ UNCHANGED <<useMultiPart, sortedBlobs, fetches, pending, nextIdx, awaited,
                 yielded, chunks, bufferChunks, bufferedSize, partNumber, part,
                 sendQueue, sendCalls, allErr, error, firstFailure>>
  /\ UNCHANGED <<onPartSent, totalFileSize, partSent>>
  /\ UNCHANGED <<retryVars, poolVars, routeVars>>

\* completeMultiPartUpload settles and the transfer ends
CompleteSettle ==
  /\ pc = "await_complete"
  /\ \E ok \in BOOLEAN :
       IF ok
       THEN /\ pc' = "done"
            /\ UNCHANGED <<error, firstFailure>>
       ELSE /\ pc' = "failed"
            /\ error' = CompleteError
            /\ firstFailure' = Latch(firstFailure, CompleteError)
  /\ UNCHANGED <<useMultiPart, sortedBlobs, fetches, pending, nextIdx, awaited,
                 yielded, chunks, bufferChunks, bufferedSize, partNumber, part,
                 sendQueue, sendCalls, allErr, completeCalls>>
  /\ UNCHANGED <<onPartSent, totalFileSize, partSent>>
  /\ UNCHANGED <<retryVars, poolVars, routeVars>>

\* ---- streamSinglePart

\* after the loop: one send of the combined buffer, without part number
SinglePartSend ==
  /\ pc = "after_loop"
  /\ ~useMultiPart
  /\ sendCalls' = SendFileData(sendCalls, CombinedBuffer(chunks), Undefined)
  /\ awaited' = Len(sendCalls) + 1
  /\ pc' = "await_send"
  /\ UNCHANGED <<useMultiPart, sortedBlobs, fetches, pending, nextIdx, yielded,
                 chunks, bufferChunks, bufferedSize, partNumber, part,
                 sendQueue, allErr, completeCalls, error, firstFailure>>
  /\ UNCHANGED <<onPartSent, totalFileSize, partSent>>
  /\ UNCHANGED <<retryVars, poolVars, routeVars>>

\* the single send has settled and the transfer ends
SinglePartSettled ==
  /\ pc = "await_send"
  /\ sendCalls[awaited].st /= "inflight"
  /\ IF sendCalls[awaited].st = "ok"
     THEN /\ pc' = "done"
          /\ UNCHANGED error
     ELSE /\ pc' = "failed"
          /\ error' = SendError(awaited)
  /\ awaited' = 0
  /\ UNCHANGED <<useMultiPart, sortedBlobs, fetches, pending, nextIdx, yielded,
                 chunks, bufferChunks, bufferedSize, partNumber, part,
                 sendQueue, sendCalls, allErr, completeCalls, firstFailure>>
  /\ UNCHANGED <<onPartSent, totalFileSize, partSent>>
  /\ UNCHANGED <<retryVars, poolVars, routeVars>>

\* ---- the remote API

\* a send promise settles (network)
SendSettle ==
  /\ Suspended
  /\ \E k \in 1..Len(sendCalls), ok \in BOOLEAN :
       /\ sendCalls[k].st = "inflight"
       /\ sendCalls' = [sendCalls EXCEPT ![k].st = IF ok THEN "ok" ELSE "rejected"]
       /\ firstFailure' = IF ok THEN firstFailure
                          ELSE Latch(firstFailure, SendError(k))
       /\ allErr' = IF /\ ~ok
                       /\ pc = "await_all"
                       /\ \E j \in 1..Len(sendQueue) : sendQueue[j] = k
                    THEN Latch(allErr, SendError(k))
                    ELSE allErr
       /\ partSent' = ThenOnPartSent(partSent, onPartSent, ok, sendCalls[k])
  /\ UNCHANGED <<useMultiPart, sortedBlobs, pc, fetches, pending, nextIdx,
                 awaited, yielded, chunks, bufferChunks, bufferedSize,
                 partNumber, part, sendQueue, completeCalls, error>>
  /\ UNCHANGED <<onPartSent, totalFileSize>>
  /\ UNCHANGED <<retryVars, poolVars, routeVars>>

Next ==
  \/ StreamToNotion
  \/ GenLoop
  \/ GenReturn
  \/ YieldBlock
  \/ FetchRejected
  \/ GenNext
  \/ FetchSettle
  \/ FlushSend
  \/ FlushWait
  \/ SlotFreed
  \/ SlotRejected
  \/ FlushDone
  \/ FinalFlushSend
  \/ FinalFlushWait
  \/ FinalSlotFreed
  \/ NoFinalFlush
  \/ PromiseAll
  \/ AllRejected
  \/ CompleteMultiPartUpload
  \/ CompleteSettle
  \/ SinglePartSend
  \/ SinglePartSettled
  \/ SendSettle

Spec == Init /\ [][Next]_vars

\* a bound of the model: the blocks of a transfer that reports progress
MaxProgressBlocks == 3

\* byte-count hints a caller passes (the init route refuses a size of 0)
FileSizeHints == {Undefined, 2 * NOTION_CHUNK_SIZE, 2 * NOTION_CHUNK_SIZE + 1}

\* streamToNotion is called with an onPartSent callback and with or
\* without a byte-count hint
ProgressInit ==
  /\ RetryIdle
  /\ PoolIdle
  /\ RouteIdle
  /\ useMultiPart \in BOOLEAN
  /\ sortedBlobs \in {[i \in 1..n |-> i] : n \in 0..MaxProgressBlocks}
  /\ pc = "init"
  /\ fetches = [i \in 1..Len(sortedBlobs) |-> [st |-> "idle", buf |-> <<>>]]
  /\ pending = <<>>
  /\ nextIdx = 0
  /\ awaited = 0
  /\ yielded = <<>>
  /\ chunks = <<>>
  /\ bufferChunks = <<>>
  /\ bufferedSize = 0
  /\ partNumber = 1
  /\ part = <<>>
  /\ sendQueue = <<>>
  /\ sendCalls = <<>>
  /\ allErr = NoError
  /\ completeCalls = 0
  /\ error = NoError
  /\ firstFailure = NoError
  /\ onPartSent = TRUE
  /\ totalFileSize \in FileSizeHints
  /\ partSent = <<>>

SpecProgress == ProgressInit /\ [][Next]_vars

\* ---- properties

\* the logical stream: the fetched buffers concatenated in list order
Stream == Concat([j \in 1..Len(sortedBlobs) |-> fetches[sortedBlobs[j]].buf])

\* the payloads of the sendFileData calls, in call order
Payloads == [c \in 1..Len(sendCalls) |-> sendCalls[c].payload]

\* the payload sent with frame number k
FramePayload(k) ==
  sendCalls[CHOOSE c \in 1..Len(sendCalls) : sendCalls[c].partNumber = k].payload

CeilDiv(a, b) == (a + b - 1) \div b

\* multi-frame mode, the loop and the final flush are over: every frame of
\* the transfer has been handed to sendFileData
AllFramesHanded ==
  /\ useMultiPart
  /\ pc \in {"promise_all", "await_all", "await_complete", "done"}

\* a buffer that holds bytes of the body of an error response
IsErrorBody(buf) == \E k \in 1..Len(buf) : buf[k][1] < 0

\* operations started so far: block fetches and frame sends
StartedOps ==
  Cardinality({i \in DOMAIN fetches : fetches[i].st /= "idle"}) + Len(sendCalls)

\* C1: in multi-frame mode, once every frame has been handed to a send, the
\* number of frames is ceil(S / F), the frame sizes sum to S, and every frame
\* except the last is exactly F bytes, S being the sum of the block sizes.
C1_FrameCountAndSizes ==
  AllFramesHanded =>
    /\ Len(sendCalls) = CeilDiv(Len(Stream), NOTION_CHUNK_SIZE)
    /\ Len(Concat(Payloads)) = Len(Stream)
    /\ \A c \in 1..(Len(sendCalls) - 1) :
         Len(sendCalls[c].payload) = NOTION_CHUNK_SIZE

C1_Witness ==
  /\ AllFramesHanded
  /\ pc = "done"
  /\ Len(sendCalls) = 3
  /\ Len(Stream) = 2 * NOTION_CHUNK_SIZE + 1
  /\ \E i, j \in DOMAIN fetches : Len(fetches[i].buf) /= Len(fetches[j].buf)

\* C2: in multi-frame mode the frame with number k carries the bytes
\* [(k-1)F, min(kF, S)) of the logical stream, and the payloads taken in
\* frame-number order concatenate to the blocks concatenated in list order.
C2_FramesCarryStream ==
  AllFramesHanded =>
    /\ \A c \in 1..Len(sendCalls) :
         sendCalls[c].payload =
           SubSeq(Stream,
                  (sendCalls[c].partNumber - 1) * NOTION_CHUNK_SIZE + 1,
                  Min(sendCalls[c].partNumber * NOTION_CHUNK_SIZE, Len(Stream)))
    /\ Concat([k \in 1..Len(sendCalls) |-> FramePayload(k)]) = Stream

C2_Witness ==
  /\ AllFramesHanded
  /\ pc = "done"
  /\ Len(sendCalls) >= 3
  /\ \E c \in 1..Len(sendCalls) :
       \E a, b \in 1..Len(sendCalls[c].payload) :
         sendCalls[c].payload[a][1] /= sendCalls[c].payload[b][1]

\* C3: in multi-frame mode the frame numbers passed to sendFileData are at
\* every moment exactly 1..N for the N calls made, each used exactly once.
C3_FrameNumbersExact ==
  useMultiPart =>
    \A k \in 1..Len(sendCalls) :
      Cardinality({c \in 1..Len(sendCalls) : sendCalls[c].partNumber = k}) = 1

C3_Witness ==
  /\ useMultiPart
  /\ Len(sendCalls) >= 3
  /\ sendCalls[3].st = "ok"
  /\ sendCalls[2].st = "inflight"

\* C4: prefetchBlobs yields the blocks in list order, each exactly once:
\* what has been yielded is a prefix of the list, and the whole list once the
\* generator has returned.
C4_YieldInListOrder ==
  /\ Len(yielded) <= Len(sortedBlobs)
  /\ \A j \in 1..Len(yielded) : yielded[j] = sortedBlobs[j]
  /\ pc \in {"after_loop", "promise_all", "await_all", "await_complete",
             "await_final_slot", "await_send", "done"}
       => yielded = sortedBlobs

C4_Witness ==
  /\ Len(sortedBlobs) >= 4
  /\ pc = "await_fetch"
  /\ yielded = <<1>>
  /\ awaited = 2
  /\ fetches[2].st = "inflight"
  /\ fetches[3].st = "resolved"
  /\ fetches[4].st = "resolved"

\* C5: in multi-frame mode completeMultiPartUpload is called at most once,
\* exactly once in a transfer that succeeded, and only when every frame send
\* of the transfer has been acknowledged (none is in flight).
C5_FinalizeAfterAllAcks ==
  useMultiPart =>
    /\ completeCalls <= 1
    /\ completeCalls = 1 => \A c \in 1..Len(sendCalls) : sendCalls[c].st = "ok"
    /\ pc = "done" => completeCalls = 1

C5_Witness ==
  /\ useMultiPart
  /\ pc = "done"
  /\ completeCalls = 1
  /\ Len(sendCalls) >= 4

\* C6: in single-frame mode sendFileData is called at most once, only when
\* every block has been fetched, with the blocks concatenated in list order
\* and without frame number; completeMultiPartUpload is never called.
C6_SingleFrame ==
  ~useMultiPart =>
    /\ completeCalls = 0
    /\ Len(sendCalls) <= 1
    /\ Len(sendCalls) = 1 =>
         /\ \A i \in DOMAIN fetches : fetches[i].st = "resolved"
         /\ sendCalls[1].payload = Stream
         /\ sendCalls[1].partNumber = Undefined
    /\ pc = "done" => Len(sendCalls) = 1

C6_Witness ==
  /\ ~useMultiPart
  /\ pc = "done"
  /\ Len(sortedBlobs) >= 4
  /\ Len(sendCalls[1].payload) > 2 * NOTION_CHUNK_SIZE

\* C7: when S is an exact positive multiple of F, multi-frame mode sends
\* exactly S / F frames, each of F bytes, none of them empty.
C7_ExactMultiple ==
  (/\ AllFramesHanded
   /\ Len(Stream) > 0
   /\ Len(Stream) % NOTION_CHUNK_SIZE = 0)
  => /\ Len(sendCalls) = Len(Stream) \div NOTION_CHUNK_SIZE
     /\ \A c \in 1..Len(sendCalls) :
          Len(sendCalls[c].payload) = NOTION_CHUNK_SIZE

C7_Witness ==
  /\ AllFramesHanded
  /\ pc = "done"
  /\ Len(Stream) = 3 * NOTION_CHUNK_SIZE
  /\ Len(sendCalls) = 3

\* C8: once a block fetch or a frame send has failed, no further block fetch
\* and no further frame send is started.
C8_NoStartAfterFailure ==
  [][firstFailure /= NoError => StartedOps' = StartedOps]_vars

\* C9: the error streamToNotion rejects with is the error of the operation
\* that failed first in time.
C9_FirstFailureWins ==
  pc = "failed" => error = firstFailure

\* C10: the body of an error response to a block fetch is never appended to
\* the rolling buffer nor sent as payload, and a transfer in which a fetch was
\* answered with an error status does not succeed.
C10_ErrorBodyNeverUsed ==
  /\ \A j \in 1..Len(bufferChunks) : ~IsErrorBody(bufferChunks[j])
  /\ \A j \in 1..Len(chunks) : ~IsErrorBody(chunks[j])
  /\ \A c \in 1..Len(sendCalls) : ~IsErrorBody(sendCalls[c].payload)
  /\ pc = "done" => \A i \in DOMAIN fetches : ~IsErrorBody(fetches[i].buf)

\* ======================================================================
\* src/lib/retry.ts: fetchWithRetry
\* ======================================================================

Max(a, b) == IF a > b THEN a ELSE b

RECURSIVE Pow2(_)
\* Math.pow(2, n)
Pow2(n) == IF n <= 0 THEN 1 ELSE 2 * Pow2(n - 1)

\* response.ok
IsOk(status) == status \in 200..299

\* mutant of IsRetryableStatus: every error status is retried
IsRetryableStatusAnyError(status) == status >= 400

\* opts.retryableStatuses.includes(response.status)
IsRetryableStatus(status) == status \in RetryableStatuses

\* the exceptions fetch or the code after it can raise: a network error, a
\* timeout abort, anything else
ExceptionTypes == {"TypeError", "AbortError", "Error"}

\* mutant of IsRetryableError: every exception is retried
IsRetryableErrorAny(type) == TRUE

\* isRetryableError: TypeError, AbortError
IsRetryableError(type) == type \in {"TypeError", "AbortError"}

\* mutant of LastAttempt: the budget is one attempt short
LastAttemptEarly(a, maxRetries) == a + 1 >= maxRetries

\* attempt === opts.maxRetries
LastAttempt(a, maxRetries) == a = maxRetries

\* mutant of Jitters: the jitter ranges over twice the base delay
JittersWide(baseDelayMs) == {0, 2 * baseDelayMs - 1}

\* values of Math.random() * baseDelayMs, which lies in [0, baseDelayMs)
Jitters(baseDelayMs) == {0, baseDelayMs - 1}

\* mutant of GetDelay: the delay is not capped
GetDelayUncapped(a, baseDelayMs, maxDelayMs, jitter) ==
  baseDelayMs * Pow2(a) + jitter

\* getDelay
GetDelay(a, baseDelayMs, maxDelayMs, jitter) ==
  Min(baseDelayMs * Pow2(a) + jitter, maxDelayMs)

\* parseRetryAfter: milliseconds, or null
ParseRetryAfter(header) ==
  CASE header.kind = "seconds" -> [some |-> TRUE, ms |-> header.v * 1000]
    [] header.kind = "date" -> [some |-> TRUE, ms |-> Max(0, header.v - Now)]
    [] OTHER -> [some |-> FALSE, ms |-> 0]

\* mutant of BackoffDelay: Math.min instead of Math.max
BackoffDelayMin(resp, a, o, jitter) ==
  LET delay == GetDelay(a, o.baseDelayMs, o.maxDelayMs, jitter)
      retryAfterMs == ParseRetryAfter(resp.header)
  IN  IF resp.status = 429 /\ retryAfterMs.some
      THEN Min(delay, retryAfterMs.ms)
      ELSE delay

\* the delay slept after a retryable status: getDelay, and for 429 at
\* least Retry-After
BackoffDelay(resp, a, o, jitter) ==
  LET delay == GetDelay(a, o.baseDelayMs, o.maxDelayMs, jitter)
      retryAfterMs == ParseRetryAfter(resp.header)
  IN  IF resp.status = 429 /\ retryAfterMs.some
      THEN Max(delay, retryAfterMs.ms)
      ELSE delay

\* mutant of ExhaustedError: a failed body read replaces the error
ExhaustedErrorLosesOutcome(maxRetries, status, read) ==
  IF read = "throws"
  THEN [type |-> "Error", id |-> 0, retries |-> 0, status |-> 0, body |-> ""]
  ELSE [type |-> "exhausted", id |-> 0, retries |-> maxRetries,
        status |-> status, body |-> read]

\* new Error(`Request failed after ${maxRetries} retries (${status}): ${body
\* || "no response body"}`), body being "" when response.text() rejects
ExhaustedError(maxRetries, status, read) ==
  LET body == IF read = "throws" THEN "" ELSE read
  IN  [type |-> "exhausted", id |-> 0, retries |-> maxRetries,
       status |-> status,
       body |-> IF body = "" THEN "no response body" ELSE body]

\* mutant of TransportFinalError: the transport error is wrapped
TransportFinalErrorWrapped(err, maxRetries) ==
  [type |-> "exhausted", id |-> 0, retries |-> maxRetries, status |-> 0,
   body |-> "no response body"]

\* a transport error on the last attempt: throw error
TransportFinalError(err, maxRetries) == err

\* fetchWithRetry is called with maxRetries and maxDelayMs given
RetryInit ==
  /\ StreamIdle
  /\ PoolIdle
  /\ RouteIdle
  /\ opts \in [maxRetries : 0..MaxRetries,
               baseDelayMs : {1000},
               maxDelayMs : {2000, 30000}]
  /\ attempt = 0
  /\ lastError = NoRetryError
  /\ rpc = "loop"
  /\ outcomes = <<>>
  /\ response = NoResponse
  /\ sleeps = <<>>
  /\ result = NoResult

\* for (attempt <= opts.maxRetries): fetch is called; after the loop: throw
LoopHead ==
  /\ rpc = "loop"
  /\ IF attempt <= opts.maxRetries
     THEN /\ rpc' = "fetching"
          /\ UNCHANGED result
     ELSE /\ rpc' = "thrown"
          /\ result' = Thrown(IF lastError /= NoRetryError THEN lastError
                              ELSE FetchException("Error", 0))
  /\ response' = NoResponse
  /\ UNCHANGED <<opts, attempt, lastError, outcomes, sleeps>>
  /\ UNCHANGED <<streamVars, poolVars, routeVars>>

\* the response is ok or its status is not retryable: it is returned
ReturnResponse ==
  /\ rpc = "fetching"
  /\ \E status \in Statuses :
       /\ IsOk(status) \/ ~IsRetryableStatus(status)
       /\ response' = Resp(status, NoHeader)
       /\ outcomes' = Append(outcomes, Resp(status, NoHeader))
       /\ result' = Returned(status)
  /\ rpc' = "returned"
  /\ UNCHANGED <<opts, attempt, lastError, sleeps>>
  /\ UNCHANGED <<streamVars, poolVars, routeVars>>

\* a retryable status on the last attempt: the body is read
ExhaustedStatus ==
  /\ rpc = "fetching"
  /\ LastAttempt(attempt, opts.maxRetries)
  /\ \E status \in Statuses :
       /\ ~IsOk(status) /\ IsRetryableStatus(status)
       /\ response' = Resp(status, NoHeader)
       /\ outcomes' = Append(outcomes, Resp(status, NoHeader))
  /\ rpc' = "reading_body"
  /\ UNCHANGED <<opts, attempt, lastError, sleeps, result>>
  /\ UNCHANGED <<streamVars, poolVars, routeVars>>

\* response.text() has settled: the terminal Error is thrown (the catch
\* block re-throws it: it is no transport error)
ReadBody ==
  /\ rpc = "reading_body"
  /\ \E read \in BodyReads :
       /\ response' = [response EXCEPT !.read = read]
       /\ result' = Thrown(ExhaustedError(opts.maxRetries, response.status, read))
  /\ rpc' = "thrown"
  /\ UNCHANGED <<opts, attempt, lastError, outcomes, sleeps>>
  /\ UNCHANGED <<streamVars, poolVars, routeVars>>

\* what the log of outcomes keeps of a Retry-After header: whether the 429
\* branch read a time from it
Logged(status, header) ==
  IF status = 429 /\ ParseRetryAfter(header).some
  THEN [kind |-> "parsed", v |-> 0]
  ELSE NoHeader

\* a retryable status before the last attempt: sleep
BackoffStatus ==
  /\ rpc = "fetching"
  /\ ~LastAttempt(attempt, opts.maxRetries)
  /\ \E status \in Statuses, header \in RetryAfterHeaders,
        jitter \in Jitters(opts.baseDelayMs) :
       /\ ~IsOk(status) /\ IsRetryableStatus(status)
       /\ header /= NoHeader => status \in {429, 503}
       /\ response' = Resp(status, header)
       /\ sleeps' = Append(sleeps,
                           BackoffDelay(Resp(status, header), attempt, opts, jitter))
       /\ outcomes' = Append(outcomes, Resp(status, Logged(status, header)))
  /\ rpc' = "sleeping"
  /\ UNCHANGED <<opts, attempt, lastError, result>>
  /\ UNCHANGED <<streamVars, poolVars, routeVars>>

\* a transport error (network error, timeout abort) on the last attempt
TransportFinal ==
  /\ rpc = "fetching"
  /\ attempt = opts.maxRetries
  /\ \E type \in ExceptionTypes :
       /\ IsRetryableError(type)
       /\ response' = Exc(type)
       /\ lastError' = FetchException(type, attempt)
       /\ result' = Thrown(TransportFinalError(FetchException(type, attempt),
                                               opts.maxRetries))
       /\ outcomes' = Append(outcomes, Exc(type))
  /\ rpc' = "thrown"
  /\ UNCHANGED <<opts, attempt, sleeps>>
  /\ UNCHANGED <<streamVars, poolVars, routeVars>>

\* mutant of BackoffTransport: the next attempt follows without a sleep
BackoffTransportNoSleep ==
  /\ rpc = "fetching"
  /\ attempt /= opts.maxRetries
  /\ \E type \in ExceptionTypes :
       /\ IsRetryableError(type)
       /\ response' = Exc(type)
       /\ lastError' = FetchException(type, attempt)
       /\ outcomes' = Append(outcomes, Exc(type))
  /\ attempt' = attempt + 1
  /\ rpc' = "loop"
  /\ UNCHANGED <<opts, sleeps, result>>
  /\ UNCHANGED <<streamVars, poolVars, routeVars>>

\* a transport error before the last attempt: sleep, continue
BackoffTransport ==
  /\ rpc = "fetching"
  /\ attempt /= opts.maxRetries
  /\ \E type \in ExceptionTypes, jitter \in Jitters(opts.baseDelayMs) :
       /\ IsRetryableError(type)
       /\ response' = Exc(type)
       /\ lastError' = FetchException(type, attempt)
       /\ sleeps' = Append(sleeps, GetDelay(attempt, opts.baseDelayMs,
                                            opts.maxDelayMs, jitter))
       /\ outcomes' = Append(outcomes, Exc(type))
  /\ rpc' = "sleeping"
  /\ UNCHANGED <<opts, attempt, result>>
  /\ UNCHANGED <<streamVars, poolVars, routeVars>>

\* any other exception of the call is re-thrown
Rethrow ==
  /\ rpc = "fetching"
  /\ \E type \in ExceptionTypes :
       /\ ~IsRetryableError(type)
       /\ response' = Exc(type)
       /\ result' = Thrown(FetchException(type, attempt))
       /\ outcomes' = Append(outcomes, Exc(type))
  /\ rpc' = "thrown"
  /\ UNCHANGED <<opts, attempt, lastError, sleeps>>
  /\ UNCHANGED <<streamVars, poolVars, routeVars>>

\* the sleep is over: attempt++
SleepDone ==
  /\ rpc = "sleeping"
  /\ attempt' = attempt + 1
  /\ rpc' = "loop"
  /\ UNCHANGED <<opts, lastError, outcomes, response, sleeps, result>>
  /\ UNCHANGED <<streamVars, poolVars, routeVars>>

RetryNext ==
  \/ LoopHead
  \/ ReturnResponse
  \/ ExhaustedStatus
  \/ ReadBody
  \/ BackoffStatus
  \/ TransportFinal
  \/ BackoffTransport
  \/ Rethrow
  \/ SleepDone

SpecRetry == RetryInit /\ [][RetryNext]_vars

\* ---- properties of fetchWithRetry

\* a response that the contract says is final: ok, or a status that is not
\* one of 429, 500, 502, 503, 504
FinalResponse(o) ==
  /\ o.kind = "response"
  /\ o.status \in 200..299 \/ o.status \notin {429, 500, 502, 503, 504}

RetryableResponse(o) ==
  o.kind = "response" /\ o.status \in {429, 500, 502, 503, 504}

TransportFailure(o) ==
  o.kind = "exception" /\ o.type \in {"TypeError", "AbortError"}

\* the number of calls of fetch made so far
CallAttempts == Len(outcomes) + (IF rpc = "fetching" THEN 1 ELSE 0)

\* C11: a response that is ok or whose status is not retryable is the
\* last call attempt and is returned, not thrown; when it is the first
\* response there was exactly one attempt and no backoff sleep
C11_FinalResponseReturned ==
  \A i \in 1..Len(outcomes) :
    FinalResponse(outcomes[i]) =>
      /\ i = Len(outcomes)
      /\ CallAttempts = i
      /\ rpc = "returned"
      /\ result = Returned(outcomes[i].status)
      /\ i = 1 => sleeps = <<>>

C11_Witness ==
  /\ rpc = "returned"
  /\ opts.maxRetries = 3
  /\ Len(outcomes) = 1
  /\ outcomes[1].status = 404
  /\ result = Returned(404)

\* C12: when every attempt answered with a retryable status, there are
\* exactly maxRetries + 1 call attempts, then an error is thrown; the
\* failing response is never returned
C12_ExhaustedAfterBudget ==
  (\A i \in 1..Len(outcomes) : RetryableResponse(outcomes[i])) =>
    /\ CallAttempts <= opts.maxRetries + 1
    /\ result.kind /= "returned"
    /\ rpc /= "returned"
    /\ rpc = "thrown" =>
         /\ Len(outcomes) = opts.maxRetries + 1
         /\ result.kind = "thrown"
    /\ Len(outcomes) = opts.maxRetries + 1 => rpc \in {"reading_body", "thrown"}

C12_Witness ==
  /\ rpc = "thrown"
  /\ opts.maxRetries = 3
  /\ Len(outcomes) = 4
  /\ \A i \in 1..4 : RetryableResponse(outcomes[i])
  /\ result.kind = "thrown"

\* C13: a transport failure of the attempt with index maxRetries is thrown
\* as that same error value, whatever the earlier attempts ended in
C13_LastTransportErrorRethrown ==
  ( /\ Len(outcomes) = opts.maxRetries + 1
    /\ TransportFailure(outcomes[Len(outcomes)]) ) =>
      /\ rpc = "thrown"
      /\ result = Thrown(FetchException(outcomes[Len(outcomes)].type,
                                        opts.maxRetries))

C13_Witness ==
  /\ rpc = "thrown"
  /\ opts.maxRetries = 2
  /\ Len(outcomes) = 3
  /\ RetryableResponse(outcomes[1])
  /\ TransportFailure(outcomes[2])
  /\ outcomes[3] = Exc("TypeError")
  /\ result = Thrown(FetchException("TypeError", 2))

\* C14: transport failures and retryable statuses use one budget: at most
\* maxRetries + 1 call attempts, and one backoff sleep between every two
\* consecutive attempts
C14_SharedBudget ==
  /\ CallAttempts <= opts.maxRetries + 1
  /\ Len(sleeps) <= CallAttempts
  /\ CallAttempts >= 1 => Len(sleeps) >= CallAttempts - 1
  /\ rpc = "fetching" => Len(sleeps) = CallAttempts - 1

C14_Witness ==
  /\ rpc = "fetching"
  /\ opts.maxRetries = 3
  /\ Len(outcomes) = 3
  /\ TransportFailure(outcomes[1])
  /\ RetryableResponse(outcomes[2])
  /\ TransportFailure(outcomes[3])
  /\ Len(sleeps) = 3

\* the milliseconds a Retry-After header stands for
RetryAfterMs(header) ==
  IF header.kind = "seconds" THEN header.v * 1000
  ELSE IF header.v - Now < 0 THEN 0 ELSE header.v - Now

\* C15: the sleep after a 429 whose Retry-After header parses to r ms is
\* at least r ms, and no sleep is negative
C15_RetryAfterHonoured ==
  /\ \A i \in 1..Len(sleeps) : sleeps[i] >= 0
  /\ ( /\ rpc = "sleeping"
       /\ response.kind = "response"
       /\ response.status = 429
       /\ response.header.kind \in {"seconds", "date"} ) =>
         sleeps[Len(sleeps)] >= RetryAfterMs(response.header)

C15_Witness ==
  /\ rpc = "sleeping"
  /\ response.status = 429
  /\ response.header = [kind |-> "seconds", v |-> 60]
  /\ opts.maxDelayMs = 2000
  /\ sleeps = <<60000>>

\* C16: the error thrown when the retries are exhausted on a retryable
\* status carries that status and the response body, or "no response body"
\* when the body is empty or reading it fails
C16_ExhaustedErrorContent ==
  ( /\ rpc = "thrown"
    /\ outcomes /= <<>>
    /\ RetryableResponse(outcomes[Len(outcomes)]) ) =>
      /\ result.kind = "thrown"
      /\ result.err.type = "exhausted"
      /\ result.err.status = outcomes[Len(outcomes)].status
      /\ result.err.retries = opts.maxRetries
      /\ response.read \in BodyReads
      /\ result.err.body = IF response.read \in {"throws", ""}
                           THEN "no response body"
                           ELSE response.read

C16_Witness ==
  /\ rpc = "thrown"
  /\ opts.maxRetries = 1
  /\ Len(outcomes) = 2
  /\ outcomes[2].status = 503
  /\ response.read = "throws"
  /\ result.err.status = 503
  /\ result.err.body = "no response body"

\* ======================================================================
\* uploadChunksParallel (the upload pool)
\* ======================================================================

\* bounds of the model: chunks.length and options.concurrency
MaxItems == 4
MaxConcurrency == 3

\* the error the uploadFn of item i rejects with
UploadError(i) == [op |-> "upload", id |-> i]

\* what the promise of an uploadFn call is when the call returns: an async
\* function that finishes or throws before its first await returns a
\* promise that is already settled
StartOutcomes == {"pending", "fulfilled", "rejected"}

\* the promise uploadChunksParallel returned; resolve and reject do nothing
\* once it is settled
Resolve(p) ==
  IF p.state = "pending" THEN [state |-> "resolved", err |-> NoError] ELSE p
Reject(p, err) ==
  IF p.state = "pending" THEN [state |-> "rejected", err |-> err] ELSE p

\* mutant of Aborted: the latch is never seen
AbortedNever(err) == FALSE

\* abortError, as a condition
Aborted(err) == err /= NoError

\* mutant of CanStart: one worker too many
CanStartOneMore(active, limit, next, n, err) ==
  active <= limit /\ next < n /\ ~Aborted(err)

\* the condition of startNext's while loop
CanStart(active, limit, next, n, err) ==
  active < limit /\ next < n /\ ~Aborted(err)

\* mutant of NextCompleted: the count is not advanced
NextCompletedStuck(c) == c

\* completed++
NextCompleted(c) == c + 1

\* the reaction jobs a settled uploadFn promise queues: onFulfilled of
\* .then for a fulfilled one; for a rejected one .then has no handler and
\* passes the rejection on to .catch one job later
ReactionOf(i, state) ==
  IF state = "fulfilled" THEN <<[item |-> i, kind |-> "then"]>>
  ELSE IF state = "rejected" THEN <<[item |-> i, kind |-> "pass"]>>
  ELSE <<>>

\* the settlements of uploadFn promises, in the order they happened
Settlement(i, state, err) ==
  IF state = "pending" THEN <<>>
  ELSE <<[item |-> i, ok |-> (state = "fulfilled"), latched |-> Aborted(err)]>>

\* uploadChunksParallel(chunks, uploadFn, {concurrency, onProgress}) is called
PoolInit ==
  /\ StreamIdle
  /\ RetryIdle
  /\ RouteIdle
  /\ total \in 0..MaxItems
  /\ concurrency \in 0..MaxConcurrency
  /\ completed = 0
  /\ nextIndex = 0
  /\ abortError = NoError
  /\ activeCount = 0
  /\ ppc = "called"
  /\ workers = [i \in 1..total |-> "unstarted"]
  /\ jobs = <<>>
  /\ progress = <<>>
  /\ settled = <<>>
  /\ promise = [state |-> "pending", err |-> NoError]

\* mutant of UploadChunksParallel: no early return for an empty list
UploadChunksParallelNoEarlyReturn ==
  /\ ppc = "called"
  /\ ppc' = "startNext"
  /\ UNCHANGED <<total, concurrency, completed, nextIndex, abortError,
                 activeCount, workers, jobs, progress, settled, promise>>
  /\ UNCHANGED <<streamVars, retryVars, routeVars>>

\* if (total === 0) return; else the executor calls startNext()
UploadChunksParallel ==
  /\ ppc = "called"
  /\ IF total = 0
     THEN /\ promise' = Resolve(promise)
          /\ ppc' = "idle"
     ELSE /\ ppc' = "startNext"
          /\ UNCHANGED promise
  /\ UNCHANGED <<total, concurrency, completed, nextIndex, abortError,
                 activeCount, workers, jobs, progress, settled>>
  /\ UNCHANGED <<streamVars, retryVars, routeVars>>

\* one turn of startNext's loop: the next chunk is handed to uploadFn
StartOne ==
  /\ ppc = "startNext"
  /\ CanStart(activeCount, concurrency, nextIndex, total, abortError)
  /\ nextIndex' = nextIndex + 1
  /\ activeCount' = activeCount + 1
  /\ \E state \in StartOutcomes :
       /\ workers' = [workers EXCEPT ![nextIndex + 1] = state]
       /\ jobs' = jobs \o ReactionOf(nextIndex + 1, state)
       /\ settled' = settled \o Settlement(nextIndex + 1, state, abortError)
  /\ UNCHANGED <<total, concurrency, completed, abortError, ppc, progress,
                 promise>>
  /\ UNCHANGED <<streamVars, retryVars, routeVars>>

\* mutant of StartNextEnd: startNext may return while a slot is free
StartNextEndEarly ==
  /\ ppc = "startNext"
  /\ ppc' = "idle"
  /\ UNCHANGED <<total, concurrency, completed, nextIndex, abortError,
                 activeCount, workers, jobs, progress, settled, promise>>
  /\ UNCHANGED <<streamVars, retryVars, routeVars>>

\* the loop condition fails: startNext returns
StartNextEnd ==
  /\ ppc = "startNext"
  /\ ~CanStart(activeCount, concurrency, nextIndex, total, abortError)
  /\ ppc' = "idle"
  /\ UNCHANGED <<total, concurrency, completed, nextIndex, abortError,
                 activeCount, workers, jobs, progress, settled, promise>>
  /\ UNCHANGED <<streamVars, retryVars, routeVars>>

\* a pending uploadFn promise settles
WorkerSettle ==
  /\ ppc = "idle"
  /\ \E i \in 1..total, state \in {"fulfilled", "rejected"} :
       /\ workers[i] = "pending"
       /\ workers' = [workers EXCEPT ![i] = state]
       /\ jobs' = jobs \o ReactionOf(i, state)
       /\ settled' = settled \o Settlement(i, state, abortError)
  /\ UNCHANGED <<total, concurrency, completed, nextIndex, abortError,
                 activeCount, ppc, progress, promise>>
  /\ UNCHANGED <<streamVars, retryVars, routeVars>>

\* mutant of ThenHandler: startNext is not called again
ThenHandlerNoRestart ==
  /\ ppc = "idle"
  /\ jobs /= <<>>
  /\ Head(jobs).kind = "then"
  /\ ~Aborted(abortError)
  /\ jobs' = Tail(jobs)
  /\ activeCount' = activeCount - 1
  /\ completed' = NextCompleted(completed)
  /\ progress' = Append(progress, [completed |-> completed', total |-> total,
                                   item |-> Head(jobs).item])
  /\ promise' = IF completed' = total THEN Resolve(promise) ELSE promise
  /\ UNCHANGED <<total, concurrency, nextIndex, abortError, ppc, workers,
                 settled>>
  /\ UNCHANGED <<streamVars, retryVars, routeVars>>

\* .then(() => {...}) of a fulfilled uploadFn promise, no abort latched
ThenHandler ==
  /\ ppc = "idle"
  /\ jobs /= <<>>
  /\ Head(jobs).kind = "then"
  /\ ~Aborted(abortError)
  /\ jobs' = Tail(jobs)
  /\ activeCount' = activeCount - 1
  /\ completed' = NextCompleted(completed)
  /\ progress' = Append(progress, [completed |-> completed', total |-> total,
                                   item |-> Head(jobs).item])
  /\ IF completed' = total
     THEN /\ promise' = Resolve(promise)
          /\ UNCHANGED ppc
     ELSE /\ ppc' = "startNext"
          /\ UNCHANGED promise
  /\ UNCHANGED <<total, concurrency, nextIndex, abortError, workers, settled>>
  /\ UNCHANGED <<streamVars, retryVars, routeVars>>

\* .then: if (abortError) return
ThenAfterAbort ==
  /\ ppc = "idle"
  /\ jobs /= <<>>
  /\ Head(jobs).kind = "then"
  /\ Aborted(abortError)
  /\ jobs' = Tail(jobs)
  /\ UNCHANGED <<total, concurrency, completed, nextIndex, abortError,
                 activeCount, ppc, workers, progress, settled, promise>>
  /\ UNCHANGED <<streamVars, retryVars, routeVars>>

\* the rejection passes through .then to the promise .catch hangs on
PassRejection ==
  /\ ppc = "idle"
  /\ jobs /= <<>>
  /\ Head(jobs).kind = "pass"
  /\ jobs' = Append(Tail(jobs), [item |-> Head(jobs).item, kind |-> "catch"])
  /\ UNCHANGED <<total, concurrency, completed, nextIndex, abortError,
                 activeCount, ppc, workers, progress, settled, promise>>
  /\ UNCHANGED <<streamVars, retryVars, routeVars>>

\* mutant of CatchHandler: the error is latched, reject is not called
CatchHandlerNoReject ==
  /\ ppc = "idle"
  /\ jobs /= <<>>
  /\ Head(jobs).kind = "catch"
  /\ ~Aborted(abortError)
  /\ jobs' = Tail(jobs)
  /\ abortError' = UploadError(Head(jobs).item)
  /\ UNCHANGED <<total, concurrency, completed, nextIndex, activeCount, ppc,
                 workers, progress, settled, promise>>
  /\ UNCHANGED <<streamVars, retryVars, routeVars>>

\* .catch((error) => {...}): abortError = error; reject(error)
CatchHandler ==
  /\ ppc = "idle"
  /\ jobs /= <<>>
  /\ Head(jobs).kind = "catch"
  /\ ~Aborted(abortError)
  /\ jobs' = Tail(jobs)
  /\ abortError' = UploadError(Head(jobs).item)
  /\ promise' = Reject(promise, UploadError(Head(jobs).item))
  /\ UNCHANGED <<total, concurrency, completed, nextIndex, activeCount, ppc,
                 workers, progress, settled>>
  /\ UNCHANGED <<streamVars, retryVars, routeVars>>

\* .catch: if (abortError) return
CatchAfterAbort ==
  /\ ppc = "idle"
  /\ jobs /= <<>>
  /\ Head(jobs).kind = "catch"
  /\ Aborted(abortError)
  /\ jobs' = Tail(jobs)
  /\ UNCHANGED <<total, concurrency, completed, nextIndex, abortError,
                 activeCount, ppc, workers, progress, settled, promise>>
  /\ UNCHANGED <<streamVars, retryVars, routeVars>>

PoolNext ==
  \/ UploadChunksParallel
  \/ StartOne
  \/ StartNextEnd
  \/ WorkerSettle
  \/ ThenHandler
  \/ ThenAfterAbort
  \/ PassRejection
  \/ CatchHandler
  \/ CatchAfterAbort

SpecPool == PoolInit /\ [][PoolNext]_vars

\* the event loop runs every queued job and every synchronous step to its
\* end, and an uploadFn promise that is pending settles at some time
PoolFairness == WF_vars(PoolNext)

SpecPoolLive == PoolInit /\ [][PoolNext]_vars /\ PoolFairness

\* ---- properties of uploadChunksParallel

\* the uploadFn invocations that have started and not yet settled
InFlight == {i \in 1..total : workers[i] = "pending"}

\* the positions of `settled` at which an uploadFn failed
Failures(log) == {k \in 1..Len(log) : ~log[k].ok}

\* the position of the failure that occurred first
FirstFailureAt(log) ==
  CHOOSE k \in Failures(log) : \A j \in Failures(log) : k <= j

\* the event loop has nothing left to run for the pool
Quiescent == ppc = "idle" /\ jobs = <<>>

\* the onProgress calls made for item i
CallsFor(log, i) == {k \in 1..Len(log) : log[k].item = i}

\* C17: at every moment the uploadFn invocations that have started and not
\* yet settled number at most `concurrency`
C17_AtMostConcurrency == Cardinality(InFlight) <= concurrency

C17_Witness ==
  /\ concurrency = 2
  /\ total = 4
  /\ completed = 1
  /\ nextIndex = 3
  /\ Cardinality(InFlight) = 2

\* C18 as stated: once an uploadFn invocation has failed, no item that had
\* not been started is started
C18_NoStartAfterFailure ==
  [][Failures(settled) /= {} => nextIndex' = nextIndex]_vars

\* C18: once a failure has been latched in abortError, no item that had
\* not been started is started, also not when an active worker finishes
\* successfully afterwards; the active workers settle on their own
C18_NoStartAfterLatch ==
  [][abortError /= NoError =>
       /\ nextIndex' = nextIndex
       /\ \A i \in 1..total :
            /\ workers[i] = "unstarted" => workers'[i] = "unstarted"
            /\ workers[i] = "pending" => workers'[i] /= "unstarted"]_vars

C18_Witness ==
  /\ Quiescent
  /\ abortError /= NoError
  /\ nextIndex < total
  /\ workers[total] = "unstarted"
  /\ InFlight = {}
  /\ \E k \in 1..Len(settled) : settled[k].ok /\ settled[k].latched

\* C19: the returned promise settles once; it rejects with the error of
\* the worker that failed first, later errors are dropped, and it never
\* resolves once a worker has failed
C19_FirstErrorRejects ==
  [][ /\ promise.state /= "pending" => promise' = promise
      /\ promise'.state = "rejected" =>
           /\ Failures(settled') /= {}
           /\ promise'.err =
                UploadError(settled'[FirstFailureAt(settled')].item)
      /\ promise'.state = "resolved" => Failures(settled') = {}
      /\ (Quiescent' /\ Failures(settled') /= {}) =>
           promise'.state = "rejected" ]_vars

C19_Witness ==
  /\ Quiescent
  /\ promise.state = "rejected"
  /\ Cardinality(Failures(settled)) >= 2
  /\ settled[FirstFailureAt(settled)].item = 2
  /\ promise.err = UploadError(2)
  /\ \E k \in Failures(settled) : settled[k].item = 1

\* C20 as stated: every item whose uploadFn succeeded before a failure was
\* latched gets exactly one onProgress call
C20_ProgressForEverySuccessBeforeLatch ==
  Quiescent =>
    \A k \in 1..Len(settled) :
      (settled[k].ok /\ ~settled[k].latched) =>
        Cardinality(CallsFor(progress, settled[k].item)) = 1

\* C20: onProgress is called at most once per item and only for an item
\* whose uploadFn has resolved, with completedCount 1, 2, ... and totalCount
\* the number of items, never once a failure is latched; an item that
\* succeeded before any worker failed gets exactly one call
C20_ProgressBeforeLatch ==
  [][ /\ \A k \in 1..Len(progress') :
           /\ progress'[k].completed = k
           /\ progress'[k].total = total
           /\ workers'[progress'[k].item] = "fulfilled"
           /\ CallsFor(progress', progress'[k].item) = {k}
      /\ Len(progress') >= Len(progress)
      /\ SubSeq(progress', 1, Len(progress)) = progress
      /\ abortError /= NoError => progress' = progress
      /\ Quiescent' =>
           \A k \in 1..Len(settled') :
             (settled'[k].ok /\ \A f \in Failures(settled') : k < f) =>
               Cardinality(CallsFor(progress', settled'[k].item)) = 1 ]_vars

C20_Witness ==
  /\ Quiescent
  /\ abortError /= NoError
  /\ Len(progress) = 1
  /\ \E k \in 1..Len(settled) :
       /\ settled[k].ok
       /\ ~settled[k].latched
       /\ CallsFor(progress, settled[k].item) = {}

\* C21: with concurrency < 1 and a non-empty list the call fails with a
\* configuration error
C21_ConfigErrorReported ==
  (concurrency < 1 /\ total >= 1 /\ Quiescent) => promise.state = "rejected"

\* C22: with an empty list the call resolves at once, no uploadFn is
\* invoked and onProgress is not called
C22_EmptyListResolves ==
  (total = 0 /\ ppc /= "called") =>
    /\ promise.state = "resolved"
    /\ nextIndex = 0
    /\ workers = <<>>
    /\ jobs = <<>>
    /\ settled = <<>>
    /\ progress = <<>>

C22_Witness ==
  /\ total = 0
  /\ concurrency = 2
  /\ ppc = "idle"
  /\ promise.state = "resolved"

\* C23: with concurrency >= 1 and N >= 1 items whose uploadFn all succeed,
\* uploadFn is invoked once per item and the promise resolves in the end,
\* exactly when the N-th completion is counted
C23_AllSucceedResolves ==
  /\ <>(\/ total = 0
        \/ concurrency = 0
        \/ Failures(settled) /= {}
        \/ promise.state = "resolved")
  /\ []((total >= 1 /\ promise.state = "resolved") =>
          /\ completed = total
          /\ nextIndex = total
          /\ Len(progress) = total
          /\ \A i \in 1..total : workers[i] = "fulfilled"
          /\ \A i \in 1..total :
               Cardinality({k \in 1..Len(settled) : settled[k].item = i}) = 1)
  /\ []((total >= 1 /\ completed = total) => promise.state = "resolved")

C23_Witness ==
  /\ total = 4
  /\ concurrency = 2
  /\ completed = 4
  /\ nextIndex = 4
  /\ promise.state = "resolved"

\* ---- properties of onPartSent and of the two windows

\* the onPartSent calls that carry frame number n
SentCallsFor(n) == {j \in 1..Len(partSent) : partSent[j].partNumber = n}

\* the sends and the fetches that have started and not yet settled
SendsInFlight == {k \in 1..Len(sendCalls) : sendCalls[k].st = "inflight"}
FetchesInFlight == {i \in DOMAIN fetches : fetches[i].st = "inflight"}

\* C24: in multi-frame mode onPartSent is invoked exactly once for every
\* frame whose send succeeded, not before the send is acknowledged, with
\* the frame number passed to that send; the order is the order of the
\* acknowledgements, not of the frame numbers
C24_OnPartSentOncePerAckedFrame ==
  useMultiPart =>
    /\ \A k \in 1..Len(sendCalls) :
         IF sendCalls[k].st = "ok"
         THEN Cardinality(SentCallsFor(sendCalls[k].partNumber)) = 1
         ELSE SentCallsFor(sendCalls[k].partNumber) = {}
    /\ \A j \in 1..Len(partSent) :
         \E k \in 1..Len(sendCalls) :
           sendCalls[k].partNumber = partSent[j].partNumber

C24_Witness ==
  /\ useMultiPart
  /\ Len(partSent) = 3
  /\ partSent[1].partNumber = 2
  /\ partSent[2].partNumber = 1
  /\ partSent[3].partNumber = 3
  /\ pc = "done"

C26_EstimateNeverDecreases ==
  (useMultiPart /\ totalFileSize = Undefined) =>
    \A j \in 1..(Len(partSent) - 1) :
      partSent[j].totalParts <= partSent[j + 1].totalParts

\* C29: in multi-frame mode at most SEND_CONCURRENCY sends are in flight,
\* the final undersized frame included
C29_SendWindow ==
  useMultiPart => Cardinality(SendsInFlight) <= SEND_CONCURRENCY

C29_Witness ==
  /\ useMultiPart
  /\ Len(sendCalls) = 3
  /\ SendsInFlight = {2, 3}
  /\ Len(sendCalls[3].payload) < NOTION_CHUNK_SIZE
  /\ pc = "await_all"

\* C30: at most PREFETCH_CONCURRENCY fetches are in flight, and a fetch
\* beyond the first PREFETCH_CONCURRENCY is started only after the oldest
\* pending block has been yielded
C30_PrefetchWindow ==
  /\ Cardinality(FetchesInFlight) <= PREFETCH_CONCURRENCY
  /\ nextIdx <= Len(yielded) + PREFETCH_CONCURRENCY
  /\ \A i \in DOMAIN fetches :
       fetches[i].st /= "idle" => i <= Len(yielded) + PREFETCH_CONCURRENCY

C30_Witness ==
  /\ Len(sortedBlobs) = 4
  /\ Len(yielded) = 1
  /\ nextIdx = 4
  /\ FetchesInFlight = {2, 3, 4}

\* ======================================================================
\* src/app/api/upload/{init,chunk,complete,cleanup}/route.ts, called by the
\* client through clientFetchWithRetry (complete: through fetch)
\* ======================================================================

\* a bound of the model: onPartSent calls during one streamToNotion
MaxPartEvents == 2

\* a bound of the model: blocks of a transfer run by the complete handler
MaxCompleteBlocks == 2

\* a bound of the model: blocks of a transfer whose termination is checked
MaxLiveBlocks == 3

Routes == {"init", "chunk", "complete", "cleanup"}

\* requests: no valid auth cookie, a deployment without the Notion
\* environment variables, a body that cannot be parsed, a missing
\* parameter, a well-formed request
RequestKinds == {"unauthorized", "noenv", "malformed", "badparams", "good"}

\* DEFAULT_OPTIONS.retryableStatuses of client-retry.ts
ClientRetryableStatuses == {429, 500, 502, 503, 504}

\* maxRetries of the client's call of each route; complete is called with
\* a plain fetch
ClientMaxRetries(r) ==
  CASE r = "chunk" -> 5
    [] r = "complete" -> 0
    [] OTHER -> 3

\* the route checks the environment variables (cleanup does not)
ChecksEnv(r) == r \in {"init", "chunk", "complete"}

\* the status the catch block of the route's POST answers with
CatchStatus(r) ==
  CASE r = "init" -> 500
    [] r = "chunk" -> 500
    [] r = "complete" -> 422
    [] r = "cleanup" -> 422

\* controller.enqueue: the event is appended; on a stream the client has
\* cancelled it throws
SendEvent(log, phase) == Append(log, phase)

RoutesInit ==
  /\ StreamIdle
  /\ RetryIdle
  /\ PoolIdle
  /\ route \in Routes
  /\ request \in RequestKinds
  /\ hpc = "client_call"
  /\ cause = "none"
  /\ httpStatus = 0
  /\ events = <<>>
  /\ cleanups = 0
  /\ connected = TRUE
  /\ clientAttempt = 0
  /\ responses = <<>>

\* the client sends the request (fetch inside clientFetchWithRetry)
ClientCall ==
  /\ hpc = "client_call"
  /\ hpc' = "handler"
  /\ cause' = "none"
  /\ httpStatus' = 0
  /\ events' = <<>>
  /\ cleanups' = 0
  /\ connected' = TRUE
  /\ UNCHANGED <<route, request, clientAttempt, responses>>
  /\ UNCHANGED <<streamVars, retryVars, poolVars>>

\* POST: authentication, environment, body and parameter checks
HandlerChecks ==
  /\ hpc = "handler"
  /\ IF request = "unauthorized"
     THEN /\ httpStatus' = 401
          /\ cause' = "auth"
          /\ hpc' = "responded"
     ELSE IF request = "noenv" /\ ChecksEnv(route)
     THEN /\ httpStatus' = 500
          /\ cause' = "env"
          /\ hpc' = "responded"
     ELSE IF request = "malformed"
     THEN /\ httpStatus' = CatchStatus(route)
          /\ cause' = "parse"
          /\ hpc' = "responded"
     ELSE IF request = "badparams"
     THEN /\ httpStatus' = 400
          /\ cause' = "params"
          /\ hpc' = "responded"
     ELSE /\ hpc' = IF route = "complete" THEN "list" ELSE "internal"
          /\ UNCHANGED <<httpStatus, cause>>
  /\ UNCHANGED <<route, request, events, cleanups, connected, clientAttempt,
                 responses>>
  /\ UNCHANGED <<streamVars, retryVars, poolVars>>

\* init: createFileUpload; chunk: sendFileData or put; cleanup:
\* cleanupBlobChunks. It returns, or it throws after its own retries
InternalCall ==
  /\ hpc = "internal"
  /\ \E ok \in BOOLEAN :
       /\ httpStatus' = IF ok THEN 200 ELSE CatchStatus(route)
       /\ cause' = IF ok THEN "none" ELSE "internal"
       /\ cleanups' = IF route = "cleanup" THEN cleanups + 1 ELSE cleanups
  /\ hpc' = "responded"
  /\ UNCHANGED <<route, request, events, connected, clientAttempt, responses>>
  /\ UNCHANGED <<streamVars, retryVars, poolVars>>

\* complete: list() and the block-count check; then the SSE response is
\* returned and start() enqueues the first event
CompleteList ==
  /\ hpc = "list"
  /\ \E outcome \in {"throws", "mismatch", "match"} :
       IF outcome = "match"
       THEN /\ httpStatus' = 200
            /\ events' = SendEvent(events, "reading")
            /\ hpc' = "streaming"
            /\ UNCHANGED cause
       ELSE /\ cause' = IF outcome = "throws" THEN "internal" ELSE "count"
            /\ hpc' = "outer_catch"
            /\ UNCHANGED <<httpStatus, events>>
  /\ UNCHANGED <<route, request, cleanups, connected, clientAttempt, responses>>
  /\ UNCHANGED <<streamVars, retryVars, poolVars>>

\* complete: the outer catch: safeCleanup(uploadId), then 422
OuterCatch ==
  /\ hpc = "outer_catch"
  /\ cleanups' = cleanups + 1
  /\ httpStatus' = CatchStatus(route)
  /\ hpc' = "responded"
  /\ UNCHANGED <<route, request, cause, events, connected, clientAttempt,
                 responses>>
  /\ UNCHANGED <<streamVars, retryVars, poolVars>>

\* the client stops reading the response stream, which cancels it
Disconnect ==
  /\ hpc \in {"streaming", "attaching", "cleanup"}
  /\ connected
  /\ connected' = FALSE
  /\ UNCHANGED <<route, request, hpc, cause, httpStatus, events, cleanups,
                 clientAttempt, responses>>
  /\ UNCHANGED <<streamVars, retryVars, poolVars>>

\* onPartSent during streamToNotion: sendEvent({phase: "sending"}); when it
\* throws, the frame's promise rejects and streamToNotion fails
PartSentEvent ==
  /\ hpc = "streaming"
  /\ Len(events) <= MaxPartEvents
  /\ IF connected
     THEN /\ events' = SendEvent(events, "sending")
          /\ UNCHANGED <<hpc, cause>>
     ELSE /\ hpc' = "stream_catch"
          /\ cause' = "enqueue"
          /\ UNCHANGED events
  /\ UNCHANGED <<route, request, httpStatus, cleanups, connected,
                 clientAttempt, responses>>
  /\ UNCHANGED <<streamVars, retryVars, poolVars>>

\* streamToNotion resolves: sendEvent({phase: "attaching"})
StreamResolved ==
  /\ hpc = "streaming"
  /\ IF connected
     THEN /\ events' = SendEvent(events, "attaching")
          /\ hpc' = "attaching"
          /\ UNCHANGED cause
     ELSE /\ hpc' = "stream_catch"
          /\ cause' = "enqueue"
          /\ UNCHANGED events
  /\ UNCHANGED <<route, request, httpStatus, cleanups, connected,
                 clientAttempt, responses>>
  /\ UNCHANGED <<streamVars, retryVars, poolVars>>

\* mutant of StreamRejected: the failure of streamToNotion is swallowed and
\* the handler goes on to attach
StreamRejectedIgnored ==
  /\ hpc = "streaming"
  /\ events' = SendEvent(events, "attaching")
  /\ hpc' = "attaching"
  /\ UNCHANGED <<route, request, cause, httpStatus, cleanups, connected,
                 clientAttempt, responses>>
  /\ UNCHANGED <<streamVars, retryVars, poolVars>>

\* streamToNotion rejects
StreamRejected ==
  /\ hpc = "streaming"
  /\ hpc' = "stream_catch"
  /\ cause' = "internal"
  /\ UNCHANGED <<route, request, httpStatus, events, cleanups, connected,
                 clientAttempt, responses>>
  /\ UNCHANGED <<streamVars, retryVars, poolVars>>

\* attachFileToPage settles; on success sendEvent({phase: "cleanup"})
AttachSettled ==
  /\ hpc = "attaching"
  /\ \E ok \in BOOLEAN :
       IF ok /\ connected
       THEN /\ events' = SendEvent(events, "cleanup")
            /\ hpc' = "cleanup"
            /\ UNCHANGED cause
       ELSE /\ hpc' = "stream_catch"
            /\ cause' = IF ok THEN "enqueue" ELSE "internal"
            /\ UNCHANGED events
  /\ UNCHANGED <<route, request, httpStatus, cleanups, connected,
                 clientAttempt, responses>>
  /\ UNCHANGED <<streamVars, retryVars, poolVars>>

\* safeCleanup after the attach (its failure is swallowed), then
\* sendEvent({phase: "done"}) and controller.close()
CleanupAfterAttach ==
  /\ hpc = "cleanup"
  /\ cleanups' = cleanups + 1
  /\ IF connected
     THEN /\ events' = SendEvent(events, "done")
          /\ hpc' = "responded"
          /\ UNCHANGED cause
     ELSE /\ hpc' = "stream_catch"
          /\ cause' = "enqueue"
          /\ UNCHANGED events
  /\ UNCHANGED <<route, request, httpStatus, connected, clientAttempt,
                 responses>>
  /\ UNCHANGED <<streamVars, retryVars, poolVars>>

\* the catch block of start(): sendEvent({phase: "error"}), safeCleanup,
\* controller.close(); when sendEvent throws, start() rejects there
StreamCatch ==
  /\ hpc = "stream_catch"
  /\ IF connected
     THEN /\ events' = SendEvent(events, "error")
          /\ cleanups' = cleanups + 1
     ELSE UNCHANGED <<events, cleanups>>
  /\ hpc' = "responded"
  /\ UNCHANGED <<route, request, cause, httpStatus, connected, clientAttempt,
                 responses>>
  /\ UNCHANGED <<streamVars, retryVars, poolVars>>

\* clientFetchWithRetry: an ok or non-retryable response is returned, a
\* retryable status is retried until maxRetries
ClientDecide ==
  /\ hpc = "responded"
  /\ responses' = Append(responses, httpStatus)
  /\ IF /\ httpStatus \in ClientRetryableStatuses
        /\ clientAttempt < ClientMaxRetries(route)
     THEN /\ clientAttempt' = clientAttempt + 1
          /\ hpc' = "client_call"
     ELSE /\ hpc' = "client_done"
          /\ UNCHANGED clientAttempt
  /\ UNCHANGED <<route, request, cause, httpStatus, events, cleanups,
                 connected>>
  /\ UNCHANGED <<streamVars, retryVars, poolVars>>

RoutesNext ==
  \/ ClientCall
  \/ HandlerChecks
  \/ InternalCall
  \/ CompleteList
  \/ OuterCatch
  \/ Disconnect
  \/ PartSentEvent
  \/ StreamResolved
  \/ StreamRejected
  \/ AttachSettled
  \/ CleanupAfterAttach
  \/ StreamCatch
  \/ ClientDecide

SpecRoutes == RoutesInit /\ [][RoutesNext]_vars

\* ---- properties of the route handlers

\* C27: a route that fails because an internal call failed for good answers
\* with a status the client's retry layer does not retry, and the client
\* makes no further request
C27_ExhaustionNotRetried ==
  /\ (cause = "internal" /\ httpStatus /= 0) =>
       httpStatus \notin {429, 500, 502, 503, 504}
  /\ (cause = "internal" /\ hpc = "client_call") => clientAttempt = 0

\* the request is one whose parameters the complete handler accepts
Accepted ==
  /\ route = "complete"
  /\ request = "good"
  /\ hpc \in {"responded", "client_done"}

\* C28: when the complete handler has accepted its parameters,
\* cleanupBlobChunks has been invoked by the time the response ends
C28_CleanupOnEveryPath == Accepted => cleanups >= 1

\* ---- further properties of fetchWithRetry

\* the outcome of an attempt whose sleep is raised to its Retry-After value
Overridden(o) ==
  /\ o.kind = "response"
  /\ o.status = 429
  /\ o.header.kind = "parsed"

\* C33 as stated: every delay slept between two attempts is at most
\* maxDelayMs
C33_EveryDelayCapped ==
  \A i \in 1..Len(sleeps) : sleeps[i] <= opts.maxDelayMs

\* C33: a delay slept after an attempt whose answer is not a 429 with a
\* readable Retry-After is at most maxDelayMs; after such a 429 it is at
\* most the larger of maxDelayMs and the Retry-After time
C33_DelayCappedUnlessRetryAfter ==
  /\ \A i \in 1..Len(sleeps) :
       ~Overridden(outcomes[i]) => sleeps[i] <= opts.maxDelayMs
  /\ ( /\ rpc = "sleeping"
       /\ response.kind = "response"
       /\ response.status = 429
       /\ response.header.kind \in {"seconds", "date"} ) =>
         sleeps[Len(sleeps)] <=
           Max(opts.maxDelayMs, RetryAfterMs(response.header))

C33_DelayCappedUnlessRetryAfter_Witness ==
  /\ opts.maxDelayMs = 2000
  /\ Len(sleeps) = 3
  /\ Overridden(outcomes[1]) /\ sleeps[1] = 60000
  /\ ~Overridden(outcomes[2]) /\ sleeps[2] = 2000
  /\ ~Overridden(outcomes[3]) /\ sleeps[3] = 2000

\* C34: when neither of two consecutive delays is raised by Retry-After and
\* the earlier one is below maxDelayMs, the later one is strictly greater,
\* whatever the jitter; the first delay, when not raised by Retry-After, is
\* at least the smaller of baseDelayMs and maxDelayMs
C34_BackoffGrows ==
  /\ (Len(sleeps) >= 1 /\ ~Overridden(outcomes[1])) =>
       sleeps[1] >= Min(opts.baseDelayMs, opts.maxDelayMs)
  /\ \A i \in 1..(Len(sleeps) - 1) :
       ( /\ ~Overridden(outcomes[i])
         /\ ~Overridden(outcomes[i + 1])
         /\ sleeps[i] < opts.maxDelayMs ) =>
           sleeps[i + 1] > sleeps[i]

C34_BackoffGrows_Witness ==
  /\ opts.maxDelayMs = 30000
  /\ Len(sleeps) = 3
  /\ \A i \in 1..3 : ~Overridden(outcomes[i])
  /\ sleeps[1] = opts.baseDelayMs + (opts.baseDelayMs - 1)
  /\ sleeps[2] = 2 * opts.baseDelayMs
  /\ sleeps[3] > sleeps[2]

\* the outcome of an attempt that raised an exception which is not a
\* transport failure
OtherException(o) ==
  o.kind = "exception" /\ o.type \notin {"TypeError", "AbortError"}

\* C39: an attempt that raises an exception which is neither a TypeError nor
\* an AbortError is the last attempt of the call: that exception is thrown
\* to the caller, no sleep follows it and no further attempt is made
C39_OtherExceptionRethrown ==
  \A i \in 1..Len(outcomes) :
    OtherException(outcomes[i]) =>
      /\ i = Len(outcomes)
      /\ rpc = "thrown"
      /\ result = Thrown(FetchException(outcomes[i].type, i - 1))
      /\ Len(sleeps) = i - 1
      /\ attempt = i - 1

C39_OtherExceptionRethrown_Witness ==
  /\ opts.maxRetries = 3
  /\ Len(outcomes) = 2
  /\ TransportFailure(outcomes[1])
  /\ outcomes[2] = Exc("Error")
  /\ result = Thrown(FetchException("Error", 1))
  /\ Len(sleeps) = 1

\* ---- further properties of streamMultiPart

\* the sum of the lengths of the buffered spans
SpanBytes == Len(Concat(bufferChunks))

\* the flush step that follows an append is over: the next block is about to
\* be consumed, or the input has ended (a transfer that failed may have
\* failed inside the flush step)
FlushFinished == useMultiPart /\ pc \notin {"flush", "await_slot", "failed"}

\* C31: in multi-part mode, whenever the flush loop that follows an append
\* has finished, bufferedSize is below the frame size, whatever the block
\* sizes; and bufferedSize always equals the bytes held in bufferChunks
C31_BufferBelowFrameAfterFlush ==
  /\ bufferedSize = SpanBytes
  /\ FlushFinished => bufferedSize < NOTION_CHUNK_SIZE

C31_BufferBelowFrameAfterFlush_Witness ==
  /\ useMultiPart
  /\ pc = "gen_next"
  /\ Len(yielded) = 2
  /\ Len(fetches[yielded[1]].buf) = 1
  /\ Len(fetches[yielded[2]].buf) = 3
  /\ Len(sendCalls) = 2
  /\ bufferedSize = 0

\* C32 as stated: control is never suspended between the cut of a frame and
\* its handoff to a send, so at no suspension point inside the loop is a cut
\* frame waiting to be handed over
C32_NoAwaitBetweenCutAndHandoff ==
  (Suspended /\ pc /= "await_final_slot" /\ pc /= "failed") => part = <<>>

\* C32: a frame cut while the send window has room is handed over in the
\* same step; a frame cut while the window is full waits at one suspension
\* point, the await of the oldest send, during which the buffer, the cut
\* frame and the part number stay as they are, and after which the frame is
\* handed over unchanged with the next part number, or the transfer fails
C32_CutAndHandoff ==
  [][ /\ (pc = "flush" /\ bufferedSize' < bufferedSize) =>
           IF Len(sendQueue) >= SEND_CONCURRENCY
           THEN /\ pc' = "await_slot"
                /\ part' = SubSeq(Concat(bufferChunks), 1, NOTION_CHUNK_SIZE)
                /\ Len(sendCalls') = Len(sendCalls)
                /\ partNumber' = partNumber
           ELSE /\ pc' = "flush"
                /\ Len(sendCalls') = Len(sendCalls) + 1
                /\ sendCalls'[Len(sendCalls')].payload =
                     SubSeq(Concat(bufferChunks), 1, NOTION_CHUNK_SIZE)
                /\ sendCalls'[Len(sendCalls')].partNumber = partNumber
                /\ partNumber' = partNumber + 1
      /\ pc = "await_slot" =>
           /\ bufferChunks' = bufferChunks
           /\ bufferedSize' = bufferedSize
           /\ \/ /\ pc' = "await_slot"
                 /\ part' = part
                 /\ partNumber' = partNumber
                 /\ Len(sendCalls') = Len(sendCalls)
              \/ /\ pc' = "flush"
                 /\ Len(sendCalls') = Len(sendCalls) + 1
                 /\ sendCalls'[Len(sendCalls')].payload = part
                 /\ sendCalls'[Len(sendCalls')].partNumber = partNumber
                 /\ partNumber' = partNumber + 1
              \/ /\ pc' = "failed"
                 /\ Len(sendCalls') = Len(sendCalls) ]_vars

C32_CutAndHandoff_Witness ==
  /\ pc = "flush"
  /\ Len(sendCalls) = 3
  /\ sendCalls[1].st = "ok"
  /\ sendCalls[2].st = "inflight"
  /\ sendCalls[3].st = "inflight"
  /\ sendCalls[3].partNumber = 3
  /\ Len(sendCalls[3].payload) = NOTION_CHUNK_SIZE
  /\ part = <<>>
  /\ bufferedSize = 1

C38_NoProgressAfterRejection ==
  [][pc = "failed" => partSent' = partSent]_vars

\* ---- further properties of uploadChunksParallel

\* C36: while no failure is latched and an item is still unstarted,
\* activeCount equals concurrency whenever no pool code is running, and
\* whenever control is back at the event loop (no promise job left) exactly
\* `concurrency` uploadFn promises are pending
C36_WindowKeptFull ==
  /\ (ppc = "idle" /\ ~Aborted(abortError) /\ nextIndex < total) =>
       activeCount = concurrency
  /\ (Quiescent /\ ~Aborted(abortError) /\ nextIndex < total) =>
       Cardinality(InFlight) = concurrency

C36_WindowKeptFull_Witness ==
  /\ Quiescent
  /\ abortError = NoError
  /\ total = 4
  /\ concurrency = 2
  /\ nextIndex = 3
  /\ completed = 1
  /\ activeCount = 2
  /\ Cardinality(InFlight) = 2

\* ---- the complete handler running streamToNotion

\* a good request to the complete route, with the blocks the handler lists
CompleteInit ==
  /\ RetryIdle
  /\ PoolIdle
  /\ route = "complete"
  /\ request = "good"
  /\ hpc = "client_call"
  /\ cause = "none"
  /\ httpStatus = 0
  /\ events = <<>>
  /\ cleanups = 0
  /\ connected = TRUE
  /\ clientAttempt = 0
  /\ responses = <<>>
  /\ useMultiPart \in BOOLEAN
  /\ sortedBlobs \in {[i \in 1..n |-> i] : n \in 0..MaxCompleteBlocks}
  /\ pc = "init"
  /\ fetches = [i \in 1..Len(sortedBlobs) |-> [st |-> "idle", buf |-> <<>>]]
  /\ pending = <<>>
  /\ nextIdx = 0
  /\ awaited = 0
  /\ yielded = <<>>
  /\ chunks = <<>>
  /\ bufferChunks = <<>>
  /\ bufferedSize = 0
  /\ partNumber = 1
  /\ part = <<>>
  /\ sendQueue = <<>>
  /\ sendCalls = <<>>
  /\ allErr = NoError
  /\ completeCalls = 0
  /\ error = NoError
  /\ firstFailure = NoError
  /\ onPartSent = TRUE
  /\ totalFileSize = Undefined
  /\ partSent = <<>>

\* await streamToNotion(...) inside start(): the steps of the transfer other
\* than the settling of a send
StreamToNotionRuns ==
  /\ hpc = "streaming"
  /\ \/ StreamToNotion
     \/ GenLoop
     \/ GenReturn
     \/ YieldBlock
     \/ FetchRejected
     \/ GenNext
     \/ FetchSettle
     \/ FlushSend
     \/ FlushWait
     \/ SlotFreed
     \/ SlotRejected
     \/ FlushDone
     \/ FinalFlushSend
     \/ FinalFlushWait
     \/ FinalSlotFreed
     \/ NoFinalFlush
     \/ PromiseAll
     \/ AllRejected
     \/ CompleteMultiPartUpload
     \/ CompleteSettle
     \/ SinglePartSend
     \/ SinglePartSettled

\* a send settles; for a numbered frame that was acknowledged the .then
\* handler calls onPartSent, which is sendEvent({phase: "sending"}): when
\* enqueue throws, the promise in the send queue is rejected
SendSettleEvent ==
  /\ Suspended
  /\ \E k \in 1..Len(sendCalls), ok \in BOOLEAN :
       LET numbered == sendCalls[k].partNumber /= Undefined
           fulfilled == ok /\ (numbered => connected)
       IN  /\ sendCalls[k].st = "inflight"
           /\ sendCalls' = [sendCalls EXCEPT
                              ![k].st = IF fulfilled THEN "ok" ELSE "rejected"]
           /\ firstFailure' = IF fulfilled THEN firstFailure
                              ELSE Latch(firstFailure, SendError(k))
           /\ allErr' = IF /\ ~fulfilled
                           /\ pc = "await_all"
                           /\ \E j \in 1..Len(sendQueue) : sendQueue[j] = k
                        THEN Latch(allErr, SendError(k))
                        ELSE allErr
           /\ partSent' = ThenOnPartSent(partSent, onPartSent, ok, sendCalls[k])
           /\ events' = IF ok /\ numbered /\ connected
                        THEN SendEvent(events, "sending")
                        ELSE events
  /\ UNCHANGED <<useMultiPart, sortedBlobs, pc, fetches, pending, nextIdx,
                 awaited, yielded, chunks, bufferChunks, bufferedSize,
                 partNumber, part, sendQueue, completeCalls, error>>
  /\ UNCHANGED <<onPartSent, totalFileSize>>
  /\ UNCHANGED <<route, request, hpc, cause, httpStatus, cleanups, connected,
                 clientAttempt, responses>>
  /\ UNCHANGED <<retryVars, poolVars>>

\* await streamToNotion(...) returns
StreamToNotionResolved == pc = "done" /\ StreamResolved

\* await streamToNotion(...) throws
StreamToNotionRejected == pc = "failed" /\ StreamRejected

CompleteNext ==
  \/ ClientCall
  \/ HandlerChecks
  \/ CompleteList
  \/ OuterCatch
  \/ Disconnect
  \/ StreamToNotionRuns
  \/ SendSettleEvent
  \/ StreamToNotionResolved
  \/ StreamToNotionRejected
  \/ AttachSettled
  \/ CleanupAfterAttach
  \/ StreamCatch
  \/ ClientDecide

SpecComplete == CompleteInit /\ [][CompleteNext]_vars

\* ---- properties of the complete handler running streamToNotion

\* attachFileToPage has been invoked
AttachInvoked == \E i \in 1..Len(events) : events[i] = "attaching"

\* C35: attachFileToPage is invoked only after streamToNotion has resolved,
\* every send acknowledged and, in multi-part mode, completeMultiPartUpload
\* called after the sends; never when the transfer failed; a cleanup comes
\* before the attach only on a failure path, which then never attaches;
\* no frame is sent or reported after the attach
C35_AttachAfterTransfer ==
  /\ AttachInvoked =>
       /\ pc = "done"
       /\ error = NoError
       /\ \A k \in 1..Len(sendCalls) : sendCalls[k].st = "ok"
       /\ completeCalls = IF useMultiPart THEN 1 ELSE 0
       /\ hpc \in {"attaching"} => cleanups = 0
  /\ completeCalls > 0 => \A k \in 1..Len(sendCalls) : sendCalls[k].st = "ok"
  /\ hpc = "streaming" => cleanups = 0
  /\ \A i \in 1..Len(events) :
       /\ events[i] = "cleanup" =>
            \E j \in 1..(i - 1) : events[j] = "attaching"
       /\ events[i] = "sending" =>
            \A j \in 1..(i - 1) : events[j] /= "attaching"

C35_AttachAfterTransfer_Witness ==
  /\ useMultiPart
  /\ hpc = "client_done"
  /\ Len(sendCalls) = 2
  /\ completeCalls = 1
  /\ cleanups = 1
  /\ events = <<"reading", "sending", "sending", "attaching", "cleanup", "done">>

\* ---- termination of streamToNotion

LiveInit ==
  /\ RetryIdle
  /\ PoolIdle
  /\ RouteIdle
  /\ useMultiPart \in BOOLEAN
  /\ sortedBlobs \in {[i \in 1..n |-> i] : n \in 0..MaxLiveBlocks}
  /\ pc = "init"
  /\ fetches = [i \in 1..Len(sortedBlobs) |-> [st |-> "idle", buf |-> <<>>]]
  /\ pending = <<>>
  /\ nextIdx = 0
  /\ awaited = 0
  /\ yielded = <<>>
  /\ chunks = <<>>
  /\ bufferChunks = <<>>
  /\ bufferedSize = 0
  /\ partNumber = 1
  /\ part = <<>>
  /\ sendQueue = <<>>
  /\ sendCalls = <<>>
  /\ allErr = NoError
  /\ completeCalls = 0
  /\ error = NoError
  /\ firstFailure = NoError
  /\ onPartSent = FALSE
  /\ totalFileSize = Undefined
  /\ partSent = <<>>

\* the event loop runs every continuation that is ready, and every fetch,
\* send and finalize call that was started settles (each is a fetchWithRetry
\* call with a timeout and a bounded number of attempts)
Fairness == WF_vars(Next)

SpecLive == LiveInit /\ [][Next]_vars /\ Fairness

====
